---- MODULE Spec2Model ----
(***************************************************************************)
(* Model of the job-processing core of scientific-voyager:                 *)
(*   - MemoryQueue / MemoryWorker       (queue/memory_queue.py)            *)
(*   - LiteratureExtractionQueueManager (queue/literature_queue.py)        *)
(*   - JobDTO / BatchJobResultDTO       (interfaces/queue_dto.py)          *)
(*   - MemoryCache / DiskCache / CacheManager (utils/cache.py)             *)
(*   - retry / RateLimiter              (utils/error_handling.py)          *)
(* Each component has its own specification over its own variables; the    *)
(* variables of the other components stay at their initial values.         *)
(***************************************************************************)
EXTENDS Integers, Sequences, FiniteSets, TLC

\* ------------------------------------------------------------------ bounds
MaxJobs == 3          \* job ids ever created
MaxTime == 4          \* seconds the wall clock advances
NumWorkers == 2       \* num_threads of the MemoryWorker
MaxBatches == 1       \* batches ever submitted
MaxBatchSize == 2     \* payloads of one batch submission
MaxTtl == 2           \* largest ttl argument passed to the cache
MemoryTtl == 2        \* configured cache.memory_ttl (source default 3600)
DiskTtl == 3          \* configured cache.disk_ttl (source default 86400)
CleanupInterval == 2  \* configured cache.cleanup_interval (source default 3600)
MaxAttempts == 3      \* largest max_attempts given to retry
BaseDelay == 2        \* largest base_delay given to retry, in seconds
MaxDelay == 3         \* largest max_delay given to retry, in seconds
NumCallers == 2       \* threads calling through one RateLimiter
MaxCalls == 2         \* largest calls given to a RateLimiter
MaxPeriod == 2        \* largest period given to a RateLimiter, in clock units
MaxAdmitted == 3      \* calls one RateLimiter admits
MaxRetries == 1       \* max_retries of a job (source default 3)
MaxTimedJobs == 2     \* jobs submitted while the clock advances
MaxClock == 2         \* seconds the clock advances under those jobs
MaxSubmitted == 2     \* batches submitted one after the other
NumCacheThreads == 2  \* threads sharing the CacheManager
MaxWrapperCalls == 3  \* calls of one function decorated with cached
PoolThreads == 1      \* num_threads of the MemoryWorker that is started and stopped
MaxPoolJobs == 2      \* jobs submitted to the queue of that MemoryWorker
MaxLiveJobs == 2      \* jobs submitted to the worker that is never stopped
NumLockThreads == 3   \* threads calling the manager and running worker loops

\* ------------------------------------------------------- program constants
\* The buffer added to the rate limiter's sleep (0.01 s), the clock's unit
\* where the rate limiter is concerned.
Buffer == 1
LOW == 0
NORMAL == 1
HIGH == 2
CRITICAL == 3

JobIds == 1..MaxJobs
BatchIds == 1..MaxBatches
Workers == 1..NumWorkers
Callers == 1..NumCallers
\* The one thread of a MemoryWorker started with num_threads=1.
SingleThread == {1}
JobPriority == {LOW, NORMAL, HIGH, CRITICAL}
\* The priorities submissions are made with.
SubmitPriorities == {LOW, NORMAL, CRITICAL}
JobStatus == {"pending", "running", "completed", "failed", "cancelled"}

\* Python's None, for the optional string fields and for return values
\* (the booleans returned are "True" and "False").
NoneVal == "None"
\* Python's None, for the optional timestamps.
NoTime == 0 - 1
\* str(e) of the exceptions a processor raises: an exception constructed
\* without arguments has the empty message.
Messages == {"", "boom"}
NonEmptyMessages == Messages \ {""}
\* What the pipeline returns as extraction result.
ResultVal == "extracted"

\* Cache keys, cacheable values (None included) and ttl arguments; the ttl 0
\* stands for both falsy arguments, None and 0.
Keys == {"k1"}
CacheValues == {"a", "b", NoneVal}
TtlArgs == 0..MaxTtl

\* The threads that share the one CacheManager of get_cache_manager().
CacheThreads == 1..NumCacheThreads
\* What those threads store, and the ttl arguments they pass (the defaults).
ThreadValues == {"a"}
ThreadTtls == {0}

\* A thread outside the CacheManager; ret is what its last call returned.
IdleCacheThread ==
    [pc |-> "idle", op |-> "none", doing |-> "none", key |-> NoneVal,
     value |-> NoneVal, use_disk |-> FALSE, memory_ttl |-> 0, disk_ttl |-> 0,
     current_time |-> 0, ret |-> NoneVal]

\* The thread's call returns r.
Returned(r) == [IdleCacheThread EXCEPT !.ret = r]

\* No exception caught, no outcome yet.
NoEXC == [type |-> NoneVal, by |-> 0]
NoResult == [kind |-> "none", by |-> 0]

VARIABLES
    now,            \* datetime.now() as seen by the queue subsystem
    created,        \* number of JobDTO objects constructed so far
    job,            \* the JobDTO objects still referenced, by job_id
    registry,       \* keys of MemoryQueue.jobs (each maps to the object job[id])
    queue,          \* entries of MemoryQueue.queue (the PriorityQueue)
    stats,          \* MemoryQueue.stats
    batch_results,  \* LiteratureExtractionQueueManager.batch_results
    worker,         \* position of each _worker_loop thread
    canceller,      \* position of the thread inside cancel_job
    invoked,        \* ids the job_processor has been called with
    raisedFor,      \* ids for which the job_processor raised
    update_calls,   \* number of MemoryQueue.update_job calls made so far
    update_ret,     \* what the last MemoryQueue.update_job call returned
    memory_cache,   \* MemoryCache.cache: key -> CacheItem
    disk_cache,     \* the files of DiskCache: key -> cache_data
    last_cleanup,   \* CacheManager._last_cleanup
    cache_call,     \* the last call made on the CacheManager
    cache_ret,      \* what the last CacheManager.get or cleanup returned
    mem_set,        \* per key, the last MemoryCache.set since it was last deleted,
                    \* and the CacheManager.set whose value it stores
    retry,          \* the wrapper of retry: its arguments, locals and outcome
    limiter,        \* the RateLimiter's calls, period, raise_on_limit
    call_times,     \* RateLimiter.call_times
    limiter_lock,   \* the caller holding RateLimiter.lock, 0 for none
    caller,         \* position of each thread calling through the RateLimiter
    admitted,       \* the times recorded for admitted calls, all of them
    held,           \* ids of the JobDTO objects a client holds, not yet enqueued
    enq_order,      \* the job ids in the order of the enqueue calls
    payload,        \* JobDTO.payload of the jobs made by JobFactory.create_job
    batch_cancel,   \* the thread inside cancel_batch: its locals and its return
    tier_lock,      \* per cache tier, the thread holding its lock, 0 for none
    cache_thread,   \* position of each thread calling the shared CacheManager
    memo,           \* the wrapper of cached: its arguments, locals and outcome
    pool,           \* a MemoryWorker that is started and stopped, and its threads
    lock_thread     \* per thread, the lock operations ahead of it and the locks it holds

queueVars == <<now, created, job, registry, queue, stats, batch_results, worker,
               canceller, invoked, raisedFor, update_calls, update_ret>>

cacheVars == <<memory_cache, disk_cache, last_cleanup, cache_call, cache_ret, mem_set>>
retryVars == <<retry>>
limiterVars == <<limiter, call_times, limiter_lock, caller, admitted>>
queueState == <<created, job, registry, queue, stats, batch_results, worker,
                canceller, invoked, raisedFor, update_calls, update_ret>>
clientVars == <<held, enq_order, payload, batch_cancel>>
\* The state of the utilities, which the queue's clients leave alone.
threadVars == <<tier_lock, cache_thread>>
wrapperVars == <<memo>>
poolVars == <<pool>>
lockVars == <<lock_thread>>
\* The state of the utilities and of what else the queue's operations leave
\* alone.
nonPoolVars == <<cacheVars, retryVars, limiterVars, threadVars, wrapperVars, lockVars>>
utilVars == <<nonPoolVars, poolVars>>
nonQueueVars == <<utilVars, clientVars>>
nonWrapperVars == <<queueState, retryVars, limiterVars, clientVars, threadVars,
                   poolVars, lockVars>>
nonManagerVars == <<queueState, retryVars, limiterVars, clientVars, wrapperVars,
                   poolVars, lockVars>>
nonCacheVars == <<nonManagerVars, threadVars>>
nonRetryVars == <<now, queueState, cacheVars, limiterVars, clientVars, threadVars,
                 wrapperVars, poolVars, lockVars>>
nonLimiterVars == <<queueState, cacheVars, retryVars, clientVars, threadVars,
                   wrapperVars, poolVars, lockVars>>
nonLockVars == <<queueVars, cacheVars, retryVars, limiterVars, clientVars, threadVars,
                wrapperVars, poolVars>>
vars == <<queueVars, cacheVars, retryVars, limiterVars, clientVars, threadVars,
         wrapperVars, poolVars, lockVars>>

\* ------------------------------------------------------------------ JobDTO
JobDTO(prio, t) ==
    [status |-> "pending", priority |-> prio, created_at |-> t,
     started_at |-> NoTime, completed_at |-> NoTime,
     result |-> NoneVal, error |-> NoneVal, retries |-> 0]

\* An update_status that stamps the time of every transition.
update_status_restamping(j, s, t) ==
    LET j1 == [j EXCEPT !.status = s] IN
    IF s = "running" THEN [j1 EXCEPT !.started_at = t]
    ELSE IF s \in {"completed", "failed", "cancelled"}
        THEN [j1 EXCEPT !.completed_at = t]
    ELSE j1

update_status(j, s, t) ==
    LET j1 == [j EXCEPT !.status = s] IN
    IF s = "running" /\ j.started_at = NoTime
        THEN [j1 EXCEPT !.started_at = t]
    ELSE IF s \in {"completed", "failed", "cancelled"} /\ j.completed_at = NoTime
        THEN [j1 EXCEPT !.completed_at = t]
    ELSE j1

set_extraction_result(j, r, t) ==
    update_status([j EXCEPT !.result = r], "completed", t)

can_retry(j) == j.status = "failed" /\ j.retries < MaxRetries

\* increment_retry: updated_at is the only timestamp it writes.
increment_retry(j) ==
    [j EXCEPT !.retries = @ + 1, !.status = "pending", !.error = NoneVal]

\* ------------------------------------------------------------- MemoryQueue
Range(s) == {s[i] : i \in 1..Len(s)}

\* Python's tuple comparison on (-priority, created_at, job_id).
TupleLess(a, b) ==
    \/ a[1] < b[1]
    \/ a[1] = b[1] /\ a[2] < b[2]
    \/ a[1] = b[1] /\ a[2] = b[2] /\ a[3] < b[3]

\* The heap key without the negation of the priority value.
priority_tuple_ascending(j, id) == <<j.priority, j.created_at, id>>

\* The heap key without the creation time.
priority_tuple_without_time(j, id) == <<0 - j.priority, 0, id>>

priority_tuple(j, id) == <<0 - j.priority, j.created_at, id>>

\* PriorityQueue.get: the smallest entry. Job ids are unique, so the entries
\* of the heap are pairwise different and the heap is held as their set.
QueueGet(q) == CHOOSE e \in q : \A f \in q : ~TupleLess(f, e)

get_jobs_by_status(reg, jb, s) == {i \in reg : jb[i].status = s}

update_stats(reg, jb) ==
    [total_jobs |-> Cardinality(reg),
     pending_jobs |-> Cardinality(get_jobs_by_status(reg, jb, "pending")),
     running_jobs |-> Cardinality(get_jobs_by_status(reg, jb, "running")),
     completed_jobs |-> Cardinality(get_jobs_by_status(reg, jb, "completed")),
     failed_jobs |-> Cardinality(get_jobs_by_status(reg, jb, "failed")),
     cancelled_jobs |-> Cardinality(get_jobs_by_status(reg, jb, "cancelled"))]

QueueStatsDTO ==
    [total_jobs |-> 0, pending_jobs |-> 0, running_jobs |-> 0,
     completed_jobs |-> 0, failed_jobs |-> 0, cancelled_jobs |-> 0]

\* ------------------------------------------------------- BatchJobResultDTO
CountStatus(ids, jb, s) ==
    Cardinality({k \in 1..Len(ids) : jb[ids[k]].status = s})

\* An update that adds the counts found to the counts remembered.
update_from_jobs_accumulating(br, ids, jb) ==
    [br EXCEPT
        !.completed = @ + CountStatus(ids, jb, "completed"),
        !.failed = @ + CountStatus(ids, jb, "failed"),
        !.pending = @ + CountStatus(ids, jb, "pending"),
        !.running = @ + CountStatus(ids, jb, "running"),
        !.cancelled = @ + CountStatus(ids, jb, "cancelled")]

\* An update that keeps the pending count set at submit time.
update_from_jobs_pending_kept(br, ids, jb) ==
    [br EXCEPT
        !.completed = CountStatus(ids, jb, "completed"),
        !.failed = CountStatus(ids, jb, "failed"),
        !.running = CountStatus(ids, jb, "running"),
        !.cancelled = CountStatus(ids, jb, "cancelled")]

\* update_from_jobs: ids are the member jobs still found in the registry.
update_from_jobs(br, ids, jb) ==
    [br EXCEPT
        !.completed = CountStatus(ids, jb, "completed"),
        !.failed = CountStatus(ids, jb, "failed"),
        !.pending = CountStatus(ids, jb, "pending"),
        !.running = CountStatus(ids, jb, "running"),
        !.cancelled = CountStatus(ids, jb, "cancelled"),
        !.results = [i \in {x \in Range(ids) : jb[x].status = "completed"}
                        |-> jb[i].result],
        !.errors = [i \in {x \in Range(ids) : jb[x].status = "failed"
                                              /\ jb[x].error \notin {NoneVal, ""}}
                        |-> jb[i].error]]

\* A batch record that lists the job ids last first.
BatchJobResultDTO_reversed(ids) ==
    [job_ids |-> [k \in 1..Len(ids) |-> ids[Len(ids) + 1 - k]],
     completed |-> 0, failed |-> 0, pending |-> Len(ids),
     running |-> 0, cancelled |-> 0, results |-> <<>>, errors |-> <<>>]

BatchJobResultDTO(ids) ==
    [job_ids |-> ids, completed |-> 0, failed |-> 0, pending |-> Len(ids),
     running |-> 0, cancelled |-> 0, results |-> <<>>, errors |-> <<>>]

\* ----------------------------------------------------------------- Init
IdleWorker == [pc |-> "idle", id |-> 0, exc |-> NoneVal]

Init ==
    /\ now = 0
    /\ created = 0
    /\ job = <<>>
    /\ registry = {}
    /\ queue = {}
    /\ stats = QueueStatsDTO
    /\ batch_results = <<>>
    /\ worker = [w \in Workers |-> IdleWorker]
    /\ canceller = [pc |-> "idle", id |-> 0, ret |-> NoneVal]
    /\ invoked = {}
    /\ raisedFor = {}
    /\ update_calls = 0
    /\ update_ret = NoneVal
    /\ memory_cache = <<>>
    /\ disk_cache = <<>>
    /\ last_cleanup = 0
    /\ cache_call = [op |-> "none", key |-> NoneVal, use_disk |-> FALSE, at |-> 0]
    /\ cache_ret = NoneVal
    /\ mem_set = <<>>
    /\ retry = [pc |-> "idle", max_attempts |-> 0, strategy |-> "fixed",
                base_delay |-> 1, max_delay |-> 1, on_retry_args |-> NoneVal,
                on_retry |-> "none", attempt |-> 0, exc |-> NoEXC, delay |-> 0,
                invocations |-> 0, retryable_raised |-> 0, callbacks |-> 0,
                slept |-> 0, result |-> NoResult]
    /\ limiter = [constructed |-> FALSE, calls |-> 0, period |-> 0,
                  raise_on_limit |-> FALSE]
    /\ call_times = <<>>
    /\ limiter_lock = 0
    /\ caller = [c \in Callers |-> [pc |-> "idle", wake |-> 0, last |-> NoneVal]]
    /\ admitted = <<>>
    /\ held = {}
    /\ enq_order = <<>>
    /\ payload = <<>>
    /\ batch_cancel = [pc |-> "idle", b |-> 0, k |-> 0, cancelled |-> FALSE,
                       done |-> {}, ret |-> NoneVal]
    /\ tier_lock = [tier \in {"memory", "disk"} |-> 0]
    /\ cache_thread = [t \in CacheThreads |-> IdleCacheThread]
    /\ memo = [pc |-> "undecorated", ttl |-> 0, use_disk |-> FALSE, calls |-> 0,
               invocations |-> 0, result |-> NoneVal, stored |-> FALSE,
               stored_value |-> NoneVal, stored_at |-> 0, ret |-> NoneVal]
    /\ pool = [running |-> FALSE, stop_event |-> FALSE, threads |-> {},
               alive |-> {}, tested |-> {}, stopping |-> FALSE,
               stop_returned |-> FALSE, in_flight |-> {}]
    /\ lock_thread = [t \in 1..NumLockThreads |-> [ahead |-> <<>>, holds |-> <<>>]]

\* ------------------------------------------------------------- operations
Tick ==
    /\ now < MaxTime
    /\ now' = now + 1
    /\ UNCHANGED <<created, job, registry, queue, stats, batch_results, worker,
                   canceller, invoked, raisedFor, update_calls, update_ret>>
    /\ UNCHANGED nonQueueVars

\* MemoryQueue.enqueue of the freshly constructed jobs ids[1..n]; the state
\* after the last enqueue.
EnqueueAll(ids, prio) ==
    LET fresh == [i \in Range(ids) |-> JobDTO(prio, now)]
        jb == job @@ fresh
        reg == registry \cup Range(ids)
    IN  /\ created' = created + Len(ids)
        /\ job' = jb
        /\ registry' = reg
        /\ queue' = queue \cup {priority_tuple(jb[i], i) : i \in Range(ids)}
        /\ stats' = update_stats(reg, jb)

\* submit_article_id / submit_text: create_job, then queue.enqueue.
SubmitJob(id, prio) ==
    /\ UNCHANGED nonQueueVars
    /\ id = created + 1
    /\ EnqueueAll(<<id>>, prio)
    /\ UNCHANGED <<now, batch_results, worker, canceller, invoked, raisedFor,
                   update_calls, update_ret>>

\* submit_batch_article_ids / submit_batch_texts: create_batch_jobs, enqueue
\* each job in payload order, register a BatchJobResultDTO under a new id.
SubmitBatch(b, ids, prio) ==
    /\ UNCHANGED nonQueueVars
    /\ b \notin DOMAIN batch_results
    /\ \A k \in 1..Len(ids) : ids[k] = created + k
    /\ EnqueueAll(ids, prio)
    /\ batch_results' = batch_results @@ (b :> BatchJobResultDTO(ids))
    /\ UNCHANGED <<now, worker, canceller, invoked, raisedFor, update_calls, update_ret>>

\* A worker loop that an exception raised by dequeue ends.
loop_except_ends(wk) == [pc |-> "dead", id |-> 0, exc |-> "KeyError"]

\* _worker_loop: `except Exception`, for an exception raised by dequeue: it
\* is logged, the loop sleeps a second and goes on.
loop_except(wk) == wk

\* A get that leaves the entry it returns in the heap.
heappop_kept(q) == q

\* PriorityQueue.get: the heap without its smallest entry.
heappop(q) == q \ {QueueGet(q)}

\* MemoryQueue.dequeue: what it does to the queue and to the thread w that
\* calls it. A KeyError raised by self.jobs[job_id] leaves dequeue after the
\* entry was taken and is caught by the loop's except clause.
MemoryQueue_dequeue(w) ==
    /\ worker[w].pc = "idle"
    /\ IF queue = {}
        THEN UNCHANGED <<job, queue, stats, worker>>
        ELSE LET e == QueueGet(queue)
                 id == e[3]
             IN  /\ queue' = heappop(queue)
                 /\ IF id \notin registry
                     THEN /\ UNCHANGED <<job, stats>>
                          /\ worker' = [worker EXCEPT ![w] = loop_except(@)]
                     ELSE /\ job' = [job EXCEPT ![id] = update_status(@, "running", now)]
                          /\ stats' = update_stats(registry, job')
                          /\ worker' = [worker EXCEPT ![w] =
                                 [pc |-> "processing", id |-> id, exc |-> NoneVal]]
    /\ UNCHANGED <<now, created, registry, batch_results, canceller, invoked, raisedFor,
                   update_calls, update_ret>>

\* MemoryQueue.dequeue, called from the _worker_loop of a MemoryWorker that
\* is running.
dequeue(w) == MemoryQueue_dequeue(w) /\ UNCHANGED nonQueueVars

\* The objects something still refers to: the registry's values, the
\* local variables of the threads inside process_job and cancel_job, and
\* the jobs a client has made and not yet enqueued. The others are
\* unreachable and are dropped.
Referenced(jb, reg, wk, cn) ==
    [i \in {k \in DOMAIN jb : \/ k \in reg
                               \/ k \in held
                               \/ \E w \in Workers : wk[w].id = k
                               \/ (cn.pc = "write" /\ cn.id = k)} |-> jb[i]]

\* An update_job without the early return for an id that is not registered:
\* it stores the job and recomputes the stats.
update_job_inserting(id, jb) ==
    /\ update_calls' = update_calls + 1
    /\ registry' = registry \cup {id}
    /\ stats' = update_stats(registry', jb)
    /\ update_ret' = "True"

\* MemoryQueue.update_job(job) for the object job[id], jb being the objects
\* as the caller left them: False for an id that is not registered; else
\* self.jobs[id] = job (the entry is that same object already, so the keys
\* and the values stay), the stats are recomputed, True.
update_job(id, jb) ==
    /\ update_calls' = update_calls + 1
    /\ registry' = registry
    /\ stats' = IF id \in registry THEN update_stats(registry, jb) ELSE stats
    /\ update_ret' = IF id \in registry THEN "True" ELSE "False"

\* The ways a call of the processor can end: it returns leaving the job as
\* it is, or returns having stored a result (set_extraction_result), or
\* raises, or raises after it has stored a result.
ProcessorKinds == {"return", "result", "raise", "result_raise"}
StoresResult(kind) == kind \in {"result", "result_raise"}
Raises(kind) == kind \in {"raise", "result_raise"}

\* process_job, first half: self.job_processor(job); msg is the message of
\* the exception, when the call raises one.
job_processor(w, kind, msg) ==
    LET id == worker[w].id IN
    /\ worker[w].pc = "processing"
    /\ UNCHANGED nonQueueVars
    /\ job' = IF StoresResult(kind)
                THEN [job EXCEPT ![id] = set_extraction_result(@, ResultVal, now)]
                ELSE job
    /\ worker' = [worker EXCEPT ![w] =
           [pc |-> "finishing", id |-> id,
            exc |-> IF Raises(kind) THEN msg ELSE NoneVal]]
    /\ invoked' = invoked \cup {id}
    /\ raisedFor' = IF Raises(kind) THEN raisedFor \cup {id} ELSE raisedFor
    /\ UNCHANGED <<now, created, registry, queue, stats, batch_results, canceller,
                   update_calls, update_ret>>

\* An except clause that sets FAILED and drops the exception's message.
process_job_outcome_error_dropped(j, exc, t) ==
    IF exc = NoneVal
    THEN IF j.status = "running" THEN update_status(j, "completed", t) ELSE j
    ELSE update_status(j, "failed", t)

\* A process_job that gives the job up once the worker has been told to stop.
process_job_outcome_unless_stopped(j, exc, t) ==
    IF pool.stop_event THEN j
    ELSE IF exc = NoneVal
    THEN IF j.status = "running" THEN update_status(j, "completed", t) ELSE j
    ELSE update_status([j EXCEPT !.error = exc], "failed", t)

\* What process_job makes of the job once the processor has returned
\* (exc is None) or raised an exception whose message is exc.
process_job_outcome(j, exc, t) ==
    IF exc = NoneVal
    THEN IF j.status = "running" THEN update_status(j, "completed", t) ELSE j
    ELSE update_status([j EXCEPT !.error = exc], "failed", t)

\* A loop that an exception of the processor ends.
worker_loop_ended_by(exc) ==
    IF exc = NoneVal THEN IdleWorker ELSE [pc |-> "dead", id |-> 0, exc |-> exc]

\* _worker_loop after process_job(job): process_job catches every Exception
\* of the processor, so the loop goes on to its next dequeue either way.
worker_loop_next(exc) == IdleWorker

\* process_job, second half: the status update and queue.update_job(job).
process_job(w) ==
    LET id == worker[w].id
        exc == worker[w].exc
        j == job[id]
        jb == [job EXCEPT ![id] = process_job_outcome(j, exc, now)]
    IN  /\ worker[w].pc = "finishing"
        /\ UNCHANGED nonQueueVars
        /\ worker' = [worker EXCEPT ![w] = worker_loop_next(exc)]
        /\ update_job(id, jb)
        /\ job' = Referenced(jb, registry', worker', canceller)
        /\ invoked' = invoked \cap DOMAIN job'
        /\ raisedFor' = raisedFor \cap DOMAIN job'
        /\ UNCHANGED <<now, created, queue, batch_results, canceller>>

\* cancel_job, first half: get_job and the two early returns.
\* A status test that lets every status but CANCELLED through.
NotYetCancelled(s) == s # "cancelled"

CancellableStatus(s) == s = "pending"

cancel_job_check(id) ==
    /\ UNCHANGED nonQueueVars
    /\ canceller.pc = "idle"
    /\ IF id \in registry /\ CancellableStatus(job[id].status)
        THEN canceller' = [pc |-> "write", id |-> id, ret |-> NoneVal]
        ELSE canceller' = [pc |-> "idle", id |-> id, ret |-> "False"]
    /\ UNCHANGED <<now, created, job, registry, queue, stats, batch_results, worker,
                   invoked, raisedFor, update_calls, update_ret>>

\* cancel_job, second half: update_status(CANCELLED) on the object read
\* before, then queue.update_job(job); returns True whatever update_job says.
cancel_job_write ==
    LET id == canceller.id IN
    /\ canceller.pc = "write"
    /\ UNCHANGED nonQueueVars
    /\ canceller' = [pc |-> "idle", id |-> id, ret |-> "True"]
    /\ update_job(id, [job EXCEPT ![id] = update_status(@, "cancelled", now)])
    /\ job' = Referenced([job EXCEPT ![id] = update_status(@, "cancelled", now)],
                          registry', worker, canceller')
    /\ invoked' = invoked \cap DOMAIN job'
    /\ raisedFor' = raisedFor \cap DOMAIN job'
    /\ UNCHANGED <<now, created, queue, batch_results, worker>>

\* MemoryQueue.remove_job.
remove_job(id) ==
    /\ UNCHANGED nonQueueVars
    /\ IF id \in registry
        THEN /\ registry' = registry \ {id}
             /\ stats' = update_stats(registry', job)
             /\ job' = Referenced(job, registry', worker, canceller)
             /\ invoked' = invoked \cap DOMAIN job'
             /\ raisedFor' = raisedFor \cap DOMAIN job'
        ELSE UNCHANGED <<job, registry, stats, invoked, raisedFor>>
    /\ UNCHANGED <<now, created, queue, batch_results, worker, canceller, update_calls, update_ret>>

\* The member jobs of batch b that get_job still finds.
MembersFound(br, reg) == SelectSeq(br.job_ids, LAMBDA i : i \in reg)

\* get_batch_status of a registered batch.
get_batch_status(b) ==
    /\ UNCHANGED nonQueueVars
    /\ b \in DOMAIN batch_results
    /\ LET br == batch_results[b]
           jobs == MembersFound(br, registry)
       IN  batch_results' = [batch_results EXCEPT ![b] = update_from_jobs(br, jobs, job)]
    /\ UNCHANGED <<now, created, job, registry, queue, stats, worker, canceller, invoked,
                   raisedFor, update_calls, update_ret>>

\* str(uuid.uuid4()) of the next job constructed: here the smallest number
\* not yet in use.
NextJobId == created + 1

BatchPayloads(n) == [k \in 1..n |-> NextJobId + k - 1]

\* One step of a worker thread whose processor raises, when it raises,
\* an exception with a message of msgs.
ProcessorStep(w, msgs) ==
    \/ \E kind \in {"return", "result"} : job_processor(w, kind, NoneVal)
    \/ \E msg \in msgs : job_processor(w, "raise", msg)

WorkerStep(w, msgs) == dequeue(w) \/ ProcessorStep(w, msgs) \/ process_job(w)

CancelStep == cancel_job_write \/ \E id \in JobIds : cancel_job_check(id)

\* The queue with single submissions, a MemoryWorker with one thread,
\* cancel_job, remove_job.
Next ==
    \/ \E prio \in SubmitPriorities : NextJobId \in JobIds /\ SubmitJob(NextJobId, prio)
    \/ \E w \in SingleThread : WorkerStep(w, NonEmptyMessages)
    \/ CancelStep
    \/ \E id \in JobIds : remove_job(id)

Spec == Init /\ [][Next]_vars

\* cancel_job against single submissions and a MemoryWorker with one thread.
NextCancel ==
    \/ \E prio \in SubmitPriorities : NextJobId \in JobIds /\ SubmitJob(NextJobId, prio)
    \/ \E w \in SingleThread : WorkerStep(w, NonEmptyMessages)
    \/ CancelStep

SpecCancel == Init /\ [][NextCancel]_vars

\* Single submissions served by a MemoryWorker with one thread that is
\* started and never stopped: the thread is scheduled again and again, and
\* every call of the processor ends, so each step of the loop that can be
\* taken is taken eventually.
NextIsolation ==
    \/ \E prio \in SubmitPriorities : NextJobId \in JobIds /\ SubmitJob(NextJobId, prio)
    \/ \E w \in SingleThread : WorkerStep(w, NonEmptyMessages)
    \/ \E id \in JobIds : remove_job(id)

SpecIsolation ==
    /\ Init
    /\ [][NextIsolation]_vars
    /\ \A w \in SingleThread : WF_vars(WorkerStep(w, NonEmptyMessages))

\* Single submissions served by a MemoryWorker of one thread that is started
\* and never stopped, while clients cancel and remove jobs: the thread is
\* scheduled again and again and every call of the processor ends, so each
\* step of the loop that can be taken is taken eventually.
NextLive ==
    \/ \E prio \in {NORMAL, CRITICAL} :
          NextJobId \in 1..MaxLiveJobs /\ SubmitJob(NextJobId, prio)
    \/ \E w \in SingleThread : WorkerStep(w, NonEmptyMessages)
    \/ cancel_job_write
    \/ \E id \in registry : cancel_job_check(id)
    \/ \E id \in registry : remove_job(id)

SpecLive ==
    /\ Init
    /\ [][NextLive]_vars
    /\ \A w \in SingleThread : WF_vars(WorkerStep(w, NonEmptyMessages))

\* The explicit retry of a registered job by a client: can_retry(), then
\* increment_retry() on the job get_job returned, then enqueue(job), which
\* stores the job under its id again, pushes its heap entry and recounts.
recycle(id) ==
    /\ UNCHANGED nonQueueVars
    /\ id \in registry
    /\ can_retry(job[id])
    /\ job' = [job EXCEPT ![id] = increment_retry(@)]
    /\ queue' = queue \cup {priority_tuple(job'[id], id)}
    /\ stats' = update_stats(registry, job')
    /\ UNCHANGED <<now, created, registry, batch_results, worker, canceller, invoked,
                   raisedFor, update_calls, update_ret>>

\* Single submissions, one worker thread, cancel_job and the explicit retry
\* while the clock advances.
NextTimes ==
    \/ now < MaxClock /\ Tick
    \/ NextJobId \in 1..MaxTimedJobs /\ SubmitJob(NextJobId, NORMAL)
    \/ \E w \in SingleThread : WorkerStep(w, NonEmptyMessages)
    \/ cancel_job_write
    \/ \E id \in registry : cancel_job_check(id)
    \/ \E id \in registry : recycle(id)

SpecTimes == Init /\ [][NextTimes]_vars

\* Single submissions served by one worker thread whose processor ends in
\* any of the ways a callable can end.
NextOutcome ==
    \/ \E prio \in SubmitPriorities : NextJobId \in JobIds /\ SubmitJob(NextJobId, prio)
    \/ \E w \in SingleThread : dequeue(w)
    \/ \E w \in SingleThread, kind \in ProcessorKinds :
          job_processor(w, kind, IF Raises(kind) THEN "boom" ELSE NoneVal)
    \/ \E w \in SingleThread : process_job(w)

SpecOutcome == Init /\ [][NextOutcome]_vars

\* ------------------------------------------------- jobs made by a client
\* What a payload holds under 'article_id' and under 'text': no such key,
\* a falsy value (None or the empty string), or a non-empty string.
FieldStates == {"absent", "empty", "given"}
Payloads == [article_id : FieldStates, text : FieldStates]

\* The messages of the ValueErrors that _process_job raises.
ExpectedLiterature == "Expected LiteratureExtractionJobDTO"
NoAbstract == "No abstract found for article ID"
NeitherField == "Job must have either article_id or text"

\* JobFactory.create_job: the class it constructs for a payload.
job_class(p) ==
    IF p.article_id # "absent" \/ p.text # "absent"
    THEN "LiteratureExtractionJobDTO" ELSE "JobDTO"

\* LiteratureExtractionJobDTO.__post_init__ raises ValueError when the
\* payload has neither key.
post_init_raises(p) == p.article_id = "absent" /\ p.text = "absent"

\* JobFactory.create_job(payload, priority), called by a client that keeps
\* the job it gets; the job has the id `id` and the creation time now. A
\* ValueError of __post_init__ leaves the client without a job.
create_job(id, p, prio) ==
    /\ UNCHANGED utilVars
    /\ id \notin held \cup Range(enq_order)
    /\ IF job_class(p) = "LiteratureExtractionJobDTO" /\ post_init_raises(p)
        THEN UNCHANGED <<created, job, held, payload>>
        ELSE /\ created' = created + 1
             /\ job' = (id :> JobDTO(prio, now)) @@ job
             /\ held' = held \cup {id}
             /\ payload' = (id :> p) @@ payload
    /\ UNCHANGED <<now, registry, queue, stats, batch_results, worker, canceller,
                   invoked, raisedFor, update_calls, update_ret, enq_order,
                   batch_cancel>>

\* MemoryQueue.enqueue(job) of a job the client holds.
enqueue(id) ==
    /\ UNCHANGED utilVars
    /\ id \in held
    /\ registry' = registry \cup {id}
    /\ queue' = queue \cup {priority_tuple(job[id], id)}
    /\ stats' = update_stats(registry', job)
    /\ held' = held \ {id}
    /\ enq_order' = Append(enq_order, id)
    /\ UNCHANGED <<now, created, job, batch_results, worker, canceller, invoked,
                   raisedFor, update_calls, update_ret, payload, batch_cancel>>

\* What LiteratureExtractionQueueManager._process_job raises for a job with
\* the payload p, None when it raises nothing; found tells whether PubMed
\* returns an abstract for the article id.
process_job_raises(p, found) ==
    IF job_class(p) # "LiteratureExtractionJobDTO" THEN ExpectedLiterature
    ELSE IF p.article_id = "given"
        THEN IF found THEN NoneVal ELSE NoAbstract
    ELSE IF p.text = "given" THEN NoneVal
    ELSE NeitherField

\* process_job, first half, with the manager's _process_job as processor.
literature_process_job(w, found) ==
    LET id == worker[w].id
        exc == process_job_raises(payload[id], found)
    IN  /\ worker[w].pc = "processing"
        /\ id \in DOMAIN payload
        /\ UNCHANGED nonQueueVars
        /\ job' = IF exc = NoneVal
                    THEN [job EXCEPT ![id] = set_extraction_result(@, ResultVal, now)]
                    ELSE job
        /\ worker' = [worker EXCEPT ![w] = [pc |-> "finishing", id |-> id, exc |-> exc]]
        /\ invoked' = invoked \cup {id}
        /\ raisedFor' = IF exc # NoneVal THEN raisedFor \cup {id} ELSE raisedFor
        /\ UNCHANGED <<now, created, registry, queue, stats, batch_results, canceller,
                       update_calls, update_ret>>

\* Jobs made by the factory from any payload, enqueued, and processed by
\* the manager's processor on one worker thread.
NextPayload ==
    \/ \E p \in Payloads : NextJobId \in JobIds /\ create_job(NextJobId, p, NORMAL)
    \/ \E id \in JobIds : enqueue(id)
    \/ \E w \in SingleThread : dequeue(w)
    \/ \E w \in SingleThread, found \in BOOLEAN : literature_process_job(w, found)
    \/ \E w \in SingleThread : process_job(w)

SpecPayload == Init /\ [][NextPayload]_vars

\* The payload of submit_text with a text that is not empty.
TextPayload == [article_id |-> "absent", text |-> "given"]

\* The priorities of the jobs whose order of dispatch is looked at.
OrderPriorities == {NORMAL, HIGH}

\* Jobs made with ids in any order while the clock advances, enqueued in
\* any order, and dispatched to one worker thread.
NextOrder ==
    \/ Tick
    \/ \E id \in JobIds, prio \in OrderPriorities : create_job(id, TextPayload, prio)
    \/ \E id \in JobIds : enqueue(id)
    \/ \E w \in SingleThread : dequeue(w)
    \/ \E w \in SingleThread : job_processor(w, "return", NoneVal)
    \/ \E w \in SingleThread : process_job(w)

SpecOrder == Init /\ [][NextOrder]_vars

\* The manager's batches on the same queue and worker pool.
NextBatch ==
    \/ \E b \in BatchIds, n \in 1..MaxBatchSize, prio \in SubmitPriorities :
          /\ NextJobId + n - 1 \in JobIds
          /\ SubmitBatch(b, BatchPayloads(n), prio)
    \/ \E b \in BatchIds : get_batch_status(b)
    \/ \E w \in Workers : WorkerStep(w, Messages)
    \/ CancelStep
    \/ \E id \in JobIds : remove_job(id)

SpecBatch == Init /\ [][NextBatch]_vars

\* The batch ids of several submissions.
SubmitBatchIds == 1..MaxSubmitted

\* No cancel_job call under way and none returned.
FreshCanceller == [pc |-> "idle", id |-> 0, ret |-> NoneVal]

\* A loop that keeps what the last cancel_job call returned.
last_cancelled(cancelled, ret) == ret = "True"

\* cancel_batch: `if self.cancel_job(job_id): cancelled = True`.
any_cancelled(cancelled, ret) == cancelled \/ ret = "True"

\* cancel_batch(b) up to its loop: False at once for an id that is not
\* registered.
cancel_batch(b) ==
    /\ batch_cancel.pc = "idle"
    /\ canceller.pc = "idle"
    /\ batch_cancel' =
           IF b \in DOMAIN batch_results
           THEN [pc |-> "loop", b |-> b, k |-> 1, cancelled |-> FALSE,
                 done |-> {}, ret |-> NoneVal]
           ELSE [pc |-> "idle", b |-> b, k |-> 0, cancelled |-> FALSE,
                 done |-> {}, ret |-> "False"]
    /\ canceller' = FreshCanceller
    /\ UNCHANGED <<now, created, job, registry, queue, stats, batch_results, worker,
                   invoked, raisedFor, update_calls, update_ret>>
    /\ UNCHANGED <<utilVars, held, enq_order, payload>>

\* cancel_batch, the loop body: self.cancel_job(job_id) for the next
\* member, up to the early returns of cancel_job.
cancel_batch_member ==
    /\ batch_cancel.pc = "loop"
    /\ batch_cancel.k <= Len(batch_results[batch_cancel.b].job_ids)
    /\ canceller = FreshCanceller
    /\ cancel_job_check(batch_results[batch_cancel.b].job_ids[batch_cancel.k])

\* cancel_batch, the loop body once cancel_job has returned: the flag, and
\* on to the next member; done holds the members cancel_job returned True for.
cancel_batch_next ==
    /\ batch_cancel.pc = "loop"
    /\ canceller.pc = "idle"
    /\ canceller.ret # NoneVal
    /\ batch_cancel' =
           [batch_cancel EXCEPT
               !.k = @ + 1,
               !.cancelled = any_cancelled(@, canceller.ret),
               !.done = IF canceller.ret = "True" THEN @ \cup {canceller.id} ELSE @]
    /\ canceller' = FreshCanceller
    /\ UNCHANGED <<now, created, job, registry, queue, stats, batch_results, worker,
                   invoked, raisedFor, update_calls, update_ret>>
    /\ UNCHANGED <<utilVars, held, enq_order, payload>>

\* cancel_batch: `return cancelled` after the last member.
cancel_batch_return ==
    /\ batch_cancel.pc = "loop"
    /\ batch_cancel.k > Len(batch_results[batch_cancel.b].job_ids)
    /\ batch_cancel' =
           [batch_cancel EXCEPT
               !.pc = "idle",
               !.ret = IF batch_cancel.cancelled THEN "True" ELSE "False"]
    /\ UNCHANGED queueVars
    /\ UNCHANGED <<utilVars, held, enq_order, payload>>

\* One batch and single jobs on a queue served by one worker thread, and
\* cancel_batch called with the id of the batch or with an id not in use.
NextCancelBatch ==
    \/ \E b \in BatchIds, n \in 1..MaxBatchSize :
          /\ NextJobId + n - 1 \in JobIds
          /\ SubmitBatch(b, BatchPayloads(n), NORMAL)
    \/ NextJobId \in JobIds /\ SubmitJob(NextJobId, NORMAL)
    \/ \E w \in SingleThread : WorkerStep(w, NonEmptyMessages)
    \/ \E b \in SubmitBatchIds : cancel_batch(b)
    \/ cancel_batch_member
    \/ cancel_job_write
    \/ cancel_batch_next
    \/ cancel_batch_return

SpecCancelBatch == Init /\ [][NextCancelBatch]_vars

\* Batches, the empty one included, submitted one after the other to a
\* queue served by one worker thread, and their status asked for.
NextSubmit ==
    \/ \E b \in SubmitBatchIds, n \in 0..MaxBatchSize, prio \in SubmitPriorities :
          /\ NextJobId + n - 1 \in 0..MaxJobs
          /\ SubmitBatch(b, BatchPayloads(n), prio)
    \/ \E b \in SubmitBatchIds : get_batch_status(b)
    \/ \E w \in SingleThread : WorkerStep(w, Messages)

SpecSubmit == Init /\ [][NextSubmit]_vars

\* ------------------------------------------- MemoryWorker.start and stop
\* A MemoryWorker built with num_threads = PoolThreads, driven by one
\* controlling thread. pool.threads is self.threads, pool.alive the loops
\* started and not yet ended, pool.tested the loops that have passed the test
\* of their while statement and not yet called dequeue. pool.in_flight
\* remembers the jobs that were being processed when stop() was last called
\* and, once stop() has returned, those of them that still were then.
InFlight == {worker[w].id : w \in {v \in Workers : worker[v].pc \in {"processing", "finishing"}}}

\* MemoryWorker.start: `if self.running: return`.
already_running(running) == running

\* MemoryWorker.start: a second call on a running worker returns at once.
start ==
    /\ ~pool.stopping
    /\ IF already_running(pool.running)
        THEN pool' = pool
        ELSE \E S \in SUBSET (Workers \ pool.alive) :
                /\ Cardinality(S) = PoolThreads
                /\ pool' = [pool EXCEPT !.running = TRUE, !.stop_event = FALSE,
                                        !.threads = @ \cup S, !.alive = @ \cup S,
                                        !.stop_returned = FALSE]
    /\ UNCHANGED <<queueVars, nonPoolVars, clientVars>>

\* MemoryWorker.stop up to its joins: running = False, stop_event.set().
stop_signal ==
    /\ pool.running
    /\ ~pool.stopping
    /\ pool' = [pool EXCEPT !.running = FALSE, !.stop_event = TRUE, !.stopping = TRUE,
                            !.in_flight = InFlight]
    /\ UNCHANGED <<queueVars, nonPoolVars, clientVars>>

\* MemoryWorker.stop, the rest: each thread.join(timeout=1.0) returns, the
\* thread ended or not, then self.threads.clear() and the return.
stop_return ==
    /\ pool.stopping
    /\ pool' = [pool EXCEPT !.threads = {}, !.stopping = FALSE, !.stop_returned = TRUE,
                            !.in_flight = @ \cap InFlight]
    /\ UNCHANGED <<queueVars, nonPoolVars, clientVars>>

\* _worker_loop: `while self.running and not self.stop_event.is_set()`; the
\* thread ends when the test fails.
loop_test(w) ==
    /\ w \in pool.alive
    /\ w \notin pool.tested
    /\ worker[w].pc = "idle"
    /\ pool' = IF pool.running /\ ~pool.stop_event
               THEN [pool EXCEPT !.tested = @ \cup {w}]
               ELSE [pool EXCEPT !.alive = @ \ {w}]
    /\ UNCHANGED <<queueVars, nonPoolVars, clientVars>>

\* _worker_loop: `job = self.queue.dequeue()`; without a job the loop sleeps
\* and comes back to its test, with one it calls process_job first.
loop_dequeue(w) ==
    /\ w \in pool.tested
    /\ MemoryQueue_dequeue(w)
    /\ pool' = [pool EXCEPT !.tested = @ \ {w}]
    /\ UNCHANGED <<nonPoolVars, clientVars>>

\* Single submissions to the queue of a MemoryWorker that is started and
\* stopped any number of times.
NextPool ==
    \/ NextJobId \in 1..MaxPoolJobs /\ SubmitJob(NextJobId, NORMAL)
    \/ start
    \/ stop_signal
    \/ stop_return
    \/ \E w \in Workers : loop_test(w)
    \/ \E w \in Workers : loop_dequeue(w)
    \/ \E w \in Workers : ProcessorStep(w, NonEmptyMessages)
    \/ \E w \in Workers : process_job(w)

SpecPool == Init /\ [][NextPool]_vars

\* ------------------------------------------------------------------ cache
\* A function without the key k.
Drop(f, k) == [i \in DOMAIN f \ {k} |-> f[i]]

\* A function with the key k bound to x.
Put(f, k, x) == [i \in DOMAIN f \cup {k} |-> IF i = k THEN x ELSE f[i]]

\* `ttl or self.default_ttl`: a falsy ttl argument selects the default.
EffectiveTtl(ttl, default_ttl) == IF ttl = 0 THEN default_ttl ELSE ttl

\* CacheItem(value, ttl) constructed at time t.
CacheItem(value, ttl, t) == [value |-> value, expiry |-> t + ttl]

\* An expiry test that counts the instant of expiry as expired.
is_expired_at_expiry(item, t) == t >= item.expiry

\* CacheItem.is_expired at time t.
is_expired(item, t) == t > item.expiry

\* MemoryCache.get: the value returned, and the cache it leaves.
MemoryCache_get(mem, k, t) ==
    IF k \notin DOMAIN mem THEN NoneVal
    ELSE IF is_expired(mem[k], t) THEN NoneVal
    ELSE mem[k].value

MemoryCache_after_get(mem, k, t) ==
    IF k \in DOMAIN mem /\ is_expired(mem[k], t) THEN Drop(mem, k) ELSE mem

\* MemoryCache.set at time t.
MemoryCache_set(mem, k, v, ttl, t) ==
    Put(mem, k, CacheItem(v, EffectiveTtl(ttl, MemoryTtl), t))

\* MemoryCache.cleanup at time t.
MemoryCache_cleanup(mem, t) ==
    [i \in {k \in DOMAIN mem : ~is_expired(mem[k], t)} |-> mem[i]]

\* The expiry test of DiskCache.get and DiskCache.cleanup.
disk_expired(data, t) == data.expiry # 0 /\ t > data.expiry

\* DiskCache.get: the value returned, and the files it leaves.
DiskCache_get(disk, k, t) ==
    IF k \notin DOMAIN disk THEN NoneVal
    ELSE IF disk_expired(disk[k], t) THEN NoneVal
    ELSE disk[k].value

DiskCache_after_get(disk, k, t) ==
    IF k \in DOMAIN disk /\ disk_expired(disk[k], t) THEN Drop(disk, k) ELSE disk

\* DiskCache.set at time t.
DiskCache_set(disk, k, v, ttl, t) ==
    Put(disk, k, [value |-> v, created |-> t,
                  expiry |-> t + EffectiveTtl(ttl, DiskTtl)])

\* DiskCache.cleanup at time t.
DiskCache_cleanup(disk, t) ==
    [i \in {k \in DOMAIN disk : ~disk_expired(disk[k], t)} |-> disk[i]]

\* The number of entries MemoryCache.cleanup removes: len(expired_keys).
MemoryCache_removed(mem, t) == Cardinality({k \in DOMAIN mem : is_expired(mem[k], t)})

\* The number of files DiskCache.cleanup removes.
DiskCache_removed(disk, t) == Cardinality({k \in DOMAIN disk : disk_expired(disk[k], t)})

\* A cleanup that is due as soon as the interval has elapsed.
cleanup_due_at_interval(t) == t - last_cleanup >= CleanupInterval

\* _maybe_cleanup: is a cleanup due at time t.
cleanup_due(t) == t - last_cleanup > CleanupInterval

\* A get that finds the value on disk and returns it without storing it in
\* the memory cache.
promote_not(mem, k, v, t) == mem

\* CacheManager.get, the promotion: memory_cache.set(key, value).
promote(mem, k, v, t) == MemoryCache_set(mem, k, v, 0, t)

\* The origin of a value that no CacheManager.set with use_disk=true on
\* record has stored.
NoOrigin == [use_disk |-> FALSE, memory_expiry |-> 0, disk_expiry |-> 0]

\* CacheManager.get(key, use_disk): what it does to the cache.
CacheManager_get(k, use_disk) ==
    LET t == now
        mem0 == IF cleanup_due(t) THEN MemoryCache_cleanup(memory_cache, t)
                ELSE memory_cache
        disk0 == IF cleanup_due(t) THEN DiskCache_cleanup(disk_cache, t)
                 ELSE disk_cache
        v1 == MemoryCache_get(mem0, k, t)
        mem1 == MemoryCache_after_get(mem0, k, t)
        v2 == DiskCache_get(disk0, k, t)
        disk1 == DiskCache_after_get(disk0, k, t)
    IN  /\ last_cleanup' = IF cleanup_due(t) THEN t ELSE last_cleanup
        /\ cache_call' = [op |-> "get", key |-> k, use_disk |-> use_disk, at |-> now]
        /\ IF v1 # NoneVal
            THEN /\ cache_ret' = v1
                 /\ memory_cache' = mem1
                 /\ disk_cache' = disk0
                 /\ mem_set' = mem_set
            ELSE IF use_disk
            THEN /\ cache_ret' = v2
                 /\ disk_cache' = disk1
                 /\ IF v2 # NoneVal
                     THEN /\ memory_cache' = promote(mem1, k, v2, t)
                          /\ mem_set' = Put(mem_set, k,
                                 [by |-> "get", value |-> v2, ttl |-> 0,
                                  effective |-> MemoryTtl, at |-> t,
                                  origin |-> IF k \in DOMAIN mem_set
                                             THEN mem_set[k].origin
                                             ELSE NoOrigin])
                     ELSE /\ memory_cache' = mem1
                          /\ mem_set' = mem_set
            ELSE /\ cache_ret' = NoneVal
                 /\ memory_cache' = mem1
                 /\ disk_cache' = disk0
                 /\ mem_set' = mem_set

\* CacheManager.get(key, use_disk) called by a client of the manager.
cache_get(k, use_disk) ==
    CacheManager_get(k, use_disk) /\ UNCHANGED <<now, nonCacheVars>>

\* CacheManager.set(key, value, memory_ttl, disk_ttl, use_disk): what it does
\* to the cache.
CacheManager_set(k, v, memory_ttl, disk_ttl, use_disk) ==
    /\ memory_cache' = MemoryCache_set(memory_cache, k, v, memory_ttl, now)
    /\ disk_cache' = IF use_disk THEN DiskCache_set(disk_cache, k, v, disk_ttl, now)
                     ELSE disk_cache
    /\ cache_call' = [op |-> "set", key |-> k, use_disk |-> use_disk, at |-> now]
    /\ mem_set' = Put(mem_set, k,
           [by |-> "set", value |-> v, ttl |-> memory_ttl,
            effective |-> EffectiveTtl(memory_ttl, MemoryTtl), at |-> now,
            origin |-> IF use_disk
                       THEN [use_disk |-> TRUE,
                             memory_expiry |-> now + EffectiveTtl(memory_ttl, MemoryTtl),
                             disk_expiry |-> now + EffectiveTtl(disk_ttl, DiskTtl)]
                       ELSE NoOrigin])
    /\ UNCHANGED <<last_cleanup, cache_ret>>

\* CacheManager.set called by a client of the manager.
cache_set(k, v, memory_ttl, disk_ttl, use_disk) ==
    CacheManager_set(k, v, memory_ttl, disk_ttl, use_disk)
        /\ UNCHANGED <<now, nonCacheVars>>

\* CacheManager.delete(key, use_disk).
cache_delete(k, use_disk) ==
    /\ memory_cache' = Drop(memory_cache, k)
    /\ disk_cache' = IF use_disk THEN Drop(disk_cache, k) ELSE disk_cache
    /\ cache_call' = [op |-> "delete", key |-> k, use_disk |-> use_disk, at |-> now]
    /\ mem_set' = Drop(mem_set, k)
    /\ UNCHANGED <<now, nonCacheVars, last_cleanup, cache_ret>>

\* CacheManager.clear(use_disk).
cache_clear(use_disk) ==
    /\ memory_cache' = <<>>
    /\ disk_cache' = IF use_disk THEN <<>> ELSE disk_cache
    /\ cache_call' = [op |-> "clear", key |-> NoneVal, use_disk |-> use_disk, at |-> now]
    /\ mem_set' = <<>>
    /\ UNCHANGED <<now, nonCacheVars, last_cleanup, cache_ret>>

\* CacheManager.cleanup().
cache_cleanup ==
    /\ memory_cache' = MemoryCache_cleanup(memory_cache, now)
    /\ disk_cache' = DiskCache_cleanup(disk_cache, now)
    /\ cache_call' = [op |-> "cleanup", key |-> NoneVal, use_disk |-> TRUE, at |-> now]
    /\ cache_ret' = [memory_removed |-> MemoryCache_removed(memory_cache, now),
                     disk_removed |-> DiskCache_removed(disk_cache, now)]
    /\ UNCHANGED <<now, nonCacheVars, last_cleanup, mem_set>>

\* The CacheManager used from one thread while the clock advances.
NextCache ==
    \/ Tick
    \/ \E k \in Keys, v \in CacheValues, memory_ttl \in TtlArgs, disk_ttl \in TtlArgs,
          use_disk \in BOOLEAN : cache_set(k, v, memory_ttl, disk_ttl, use_disk)
    \/ \E k \in Keys, use_disk \in BOOLEAN : cache_get(k, use_disk)
    \/ \E k \in Keys, use_disk \in BOOLEAN : cache_delete(k, use_disk)
    \/ \E use_disk \in BOOLEAN : cache_clear(use_disk)
    \/ cache_cleanup

SpecCache == Init /\ [][NextCache]_vars

\* ------------------------------------------------------- cached wrapper
\* The cache key the wrapper computes for the one argument list used.
cache_key == "k1"

\* cached(ttl, use_disk) decorates a function.
cached(ttl, use_disk) ==
    /\ memo.pc = "undecorated"
    /\ memo' = [memo EXCEPT !.pc = "idle", !.ttl = ttl, !.use_disk = use_disk]
    /\ UNCHANGED <<now, nonWrapperVars, cacheVars>>

\* wrapper: cache_manager.get(cache_key, use_disk=use_disk) and the test of
\* what it returned; on a hit the wrapper returns it.
wrapper_get ==
    /\ memo.pc = "idle"
    /\ memo.calls < MaxWrapperCalls
    /\ CacheManager_get(cache_key, memo.use_disk)
    /\ memo' = IF cache_ret' # NoneVal
               THEN [memo EXCEPT !.calls = @ + 1, !.ret = cache_ret']
               ELSE [memo EXCEPT !.calls = @ + 1, !.pc = "miss"]
    /\ UNCHANGED <<now, nonWrapperVars>>

\* wrapper: `result = func(*args, **kwargs)`; the function returns result.
wrapper_func(result) ==
    /\ memo.pc = "miss"
    /\ memo' = [memo EXCEPT !.pc = "store", !.invocations = @ + 1, !.result = result]
    /\ UNCHANGED <<now, nonWrapperVars, cacheVars>>

\* wrapper: cache_manager.set(cache_key, result, memory_ttl=ttl, disk_ttl=ttl,
\* use_disk=use_disk) and `return result`.
wrapper_set ==
    /\ memo.pc = "store"
    /\ CacheManager_set(cache_key, memo.result, memo.ttl, memo.ttl, memo.use_disk)
    /\ memo' = [memo EXCEPT !.pc = "idle", !.ret = memo.result, !.stored = TRUE,
                            !.stored_value = memo.result, !.stored_at = now]
    /\ UNCHANGED <<now, nonWrapperVars>>

\* One function decorated with cached, called again and again with the same
\* arguments while the clock advances.
NextCached ==
    \/ Tick
    \/ \E ttl \in TtlArgs, use_disk \in BOOLEAN : cached(ttl, use_disk)
    \/ wrapper_get
    \/ \E result \in CacheValues : wrapper_func(result)
    \/ wrapper_set

SpecCached == Init /\ [][NextCached]_vars

\* ------------------------------------------------- cache used by threads
\* `with self.lock:` entered by thread t.
acquire(locks, tier, t) == [locks EXCEPT ![tier] = t]

\* A with block that is left without releasing the lock.
release_never(locks, tier) == locks

\* `with self.lock:` left, by return or at the end of the block.
release(locks, tier) == [locks EXCEPT ![tier] = 0]

\* Thread t calls CacheManager.get, set, delete, clear or cleanup. get starts
\* with _maybe_cleanup, the others with the memory cache.
manager_call(t, op, k, v, memory_ttl, disk_ttl, use_disk) ==
    /\ cache_thread[t].pc = "idle"
    /\ cache_thread' = [cache_thread EXCEPT ![t] =
           [pc |-> IF op = "get" THEN "maybe_cleanup" ELSE "memory",
            op |-> op, doing |-> op, key |-> k, value |-> v, use_disk |-> use_disk,
            memory_ttl |-> memory_ttl, disk_ttl |-> disk_ttl,
            current_time |-> 0, ret |-> NoneVal]]
    /\ UNCHANGED <<now, nonManagerVars, cacheVars, tier_lock>>

\* CacheManager._maybe_cleanup: the test; cleanup() is called when it is due.
maybe_cleanup(t) ==
    /\ cache_thread[t].pc = "maybe_cleanup"
    /\ cache_thread' = [cache_thread EXCEPT
           ![t].current_time = now,
           ![t].doing = IF cleanup_due(now) THEN "cleanup" ELSE "get",
           ![t].pc = "memory"]
    /\ UNCHANGED <<now, nonManagerVars, cacheVars, tier_lock>>

\* Thread t enters the `with self.lock:` of the tier method it has called;
\* it waits while another thread holds that lock.
lock_acquire(t) ==
    /\ cache_thread[t].pc \in {"memory", "disk"}
    /\ tier_lock[cache_thread[t].pc] = 0
    /\ tier_lock' = acquire(tier_lock, cache_thread[t].pc, t)
    /\ UNCHANGED <<now, nonManagerVars, cacheVars, cache_thread>>

\* The body of the MemoryCache method thread t is in, under MemoryCache.lock,
\* and what the CacheManager does with its return.
memory_tier(t) ==
    LET c == cache_thread[t]
        v == MemoryCache_get(memory_cache, c.key, now)
        memory_deleted == IF c.key \in DOMAIN memory_cache THEN "True" ELSE "False"
    IN  /\ c.pc = "memory"
        /\ tier_lock["memory"] = t
        /\ memory_cache' =
             CASE c.doing = "cleanup" -> MemoryCache_cleanup(memory_cache, now)
               [] c.doing = "get" -> MemoryCache_after_get(memory_cache, c.key, now)
               [] c.doing = "promote" -> promote(memory_cache, c.key, c.value, now)
               [] c.doing = "set" ->
                      MemoryCache_set(memory_cache, c.key, c.value, c.memory_ttl, now)
               [] c.doing = "delete" -> Drop(memory_cache, c.key)
               [] c.doing = "clear" -> <<>>
        /\ tier_lock' = release(tier_lock, "memory")
        /\ cache_thread' = [cache_thread EXCEPT ![t] =
             CASE c.doing = "cleanup" -> [c EXCEPT !.pc = "disk"]
               [] c.doing = "get" ->
                      IF v # NoneVal THEN Returned(v)
                      ELSE IF c.use_disk THEN [c EXCEPT !.pc = "disk_exists"]
                      ELSE Returned(NoneVal)
               [] c.doing = "promote" -> Returned(c.value)
               [] c.doing \in {"set", "clear"} ->
                      IF c.use_disk THEN [c EXCEPT !.pc = "disk"]
                      ELSE Returned(NoneVal)
               [] c.doing = "delete" ->
                      IF c.use_disk
                      THEN [c EXCEPT !.pc = "disk_exists", !.ret = memory_deleted]
                      ELSE Returned(memory_deleted)]
        /\ UNCHANGED <<now, nonManagerVars, disk_cache, last_cleanup, cache_call,
                       cache_ret, mem_set>>

\* DiskCache.get and DiskCache.delete: `if not cache_path.exists(): return`,
\* before the lock is taken.
disk_exists(t) ==
    LET c == cache_thread[t] IN
    /\ c.pc = "disk_exists"
    /\ cache_thread' = [cache_thread EXCEPT ![t] =
           IF c.key \in DOMAIN disk_cache THEN [c EXCEPT !.pc = "disk"]
           ELSE Returned(c.ret)]
    /\ UNCHANGED <<now, nonManagerVars, cacheVars, tier_lock>>

\* The body of the DiskCache method thread t is in, under DiskCache.lock, and
\* what the CacheManager does with its return. A file deleted since the
\* exists() test makes get return None and delete return False.
disk_tier(t) ==
    LET c == cache_thread[t]
        v == DiskCache_get(disk_cache, c.key, now)
        deleted == IF c.ret = "True" \/ c.key \in DOMAIN disk_cache
                   THEN "True" ELSE "False"
    IN  /\ c.pc = "disk"
        /\ tier_lock["disk"] = t
        /\ disk_cache' =
             CASE c.doing = "cleanup" -> DiskCache_cleanup(disk_cache, now)
               [] c.doing = "get" -> DiskCache_after_get(disk_cache, c.key, now)
               [] c.doing = "set" ->
                      DiskCache_set(disk_cache, c.key, c.value, c.disk_ttl, now)
               [] c.doing = "delete" -> Drop(disk_cache, c.key)
               [] c.doing = "clear" -> <<>>
        /\ tier_lock' = release(tier_lock, "disk")
        /\ cache_thread' = [cache_thread EXCEPT ![t] =
             CASE c.doing = "cleanup" ->
                      IF c.op = "get" THEN [c EXCEPT !.pc = "cleaned"]
                      ELSE Returned(NoneVal)
               [] c.doing = "get" ->
                      IF v # NoneVal
                      THEN [c EXCEPT !.doing = "promote", !.value = v, !.pc = "memory"]
                      ELSE Returned(NoneVal)
               [] c.doing \in {"set", "clear"} -> Returned(NoneVal)
               [] c.doing = "delete" -> Returned(deleted)]
        /\ UNCHANGED <<now, nonManagerVars, memory_cache, last_cleanup, cache_call,
                       cache_ret, mem_set>>

\* CacheManager._maybe_cleanup after cleanup(): `self._last_cleanup =
\* current_time`; get goes on with the memory cache.
set_last_cleanup(t) ==
    /\ cache_thread[t].pc = "cleaned"
    /\ last_cleanup' = cache_thread[t].current_time
    /\ cache_thread' = [cache_thread EXCEPT ![t].doing = "get", ![t].pc = "memory"]
    /\ UNCHANGED <<now, nonManagerVars, memory_cache, disk_cache, cache_call,
                   cache_ret, mem_set, tier_lock>>

\* Threads calling the shared CacheManager while the clock advances.
NextCacheThreads ==
    \/ Tick
    \/ \E t \in CacheThreads :
          \/ \E k \in Keys, use_disk \in BOOLEAN :
                manager_call(t, "get", k, NoneVal, 0, 0, use_disk)
          \/ \E k \in Keys, v \in ThreadValues, memory_ttl \in ThreadTtls,
                disk_ttl \in ThreadTtls, use_disk \in BOOLEAN :
                manager_call(t, "set", k, v, memory_ttl, disk_ttl, use_disk)
          \/ \E k \in Keys, use_disk \in BOOLEAN :
                manager_call(t, "delete", k, NoneVal, 0, 0, use_disk)
          \/ \E use_disk \in BOOLEAN :
                manager_call(t, "clear", NoneVal, NoneVal, 0, 0, use_disk)
          \/ manager_call(t, "cleanup", NoneVal, NoneVal, 0, 0, TRUE)
          \/ maybe_cleanup(t)
          \/ lock_acquire(t)
          \/ memory_tier(t)
          \/ disk_exists(t)
          \/ disk_tier(t)
          \/ set_last_cleanup(t)

SpecCacheThreads == Init /\ [][NextCacheThreads]_vars

\* ------------------------------------------------------------------ retry
\* The smaller of two numbers.
Min(a, b) == IF a <= b THEN a ELSE b

\* 2 ** n.
RECURSIVE Pow2(_)
Pow2(n) == IF n = 0 THEN 1 ELSE 2 * Pow2(n - 1)

\* ErrorHandler.get_retry_delay; jitter is the value drawn by random.uniform.
get_retry_delay(attempt_, strategy, base_delay, max_delay, jitter) ==
    IF strategy = "fixed" THEN base_delay
    ELSE IF strategy = "exponential" THEN Min(base_delay * Pow2(attempt_), max_delay)
    ELSE Min(base_delay * Pow2(attempt_), max_delay) + jitter

\* The values random.uniform(0, delay * 0.5) can draw, in whole seconds.
Jitters(attempt_, strategy, base_delay, max_delay) ==
    IF strategy = "exponential_jitter"
    THEN 0..(Min(base_delay * Pow2(attempt_), max_delay) \div 2)
    ELSE {0}

\* The exceptions the wrapped operation raises, by what decides whether
\* they are retried: a RetryableError (or NetworkError, RateLimitError), an
\* exception whose class name is in the list of network errors, an APIError
\* with status code 429 and one with another status code, an exception of a
\* class given in retryable_exceptions, and one that is none of these.
ErrorTypes == {"RetryableError", "ConnectionError", "APIError429", "APIError500",
               "TimeoutError", "ValueError"}

\* The retryable_exceptions argument of the decorator.
retryable_exceptions == {"TimeoutError"}

\* A classification that takes every error for a transient one.
is_retryable_error_any(error) == TRUE

\* ErrorHandler.is_retryable_error.
is_retryable_error(error) ==
    \/ error = "RetryableError"
    \/ error = "ConnectionError"
    \/ error = "APIError429"

\* wrapper: should_retry for the exception caught.
should_retry(e) == e \in retryable_exceptions \/ is_retryable_error(e)

\* The caller applies a function decorated with retry(max_attempts, strategy,
\* base_delay, max_delay, on_retry=...); the wrapper sets attempt = 0.
retry_call(max_attempts, strategy, base_delay, max_delay, on_retry) ==
    /\ retry.pc \in {"idle", "done"}
    /\ retry' = [pc |-> "try", max_attempts |-> max_attempts, strategy |-> strategy,
                 base_delay |-> base_delay, max_delay |-> max_delay,
                 on_retry_args |-> NoneVal,
                 on_retry |-> on_retry, attempt |-> 0, exc |-> NoEXC, delay |-> 0,
                 invocations |-> 0, retryable_raised |-> 0, callbacks |-> 0,
                 slept |-> 0, result |-> NoResult]
    /\ UNCHANGED nonRetryVars

\* wrapper: `return func(*args, **kwargs)`. The operation returns, or raises
\* an exception of the type outcome.
retry_invoke(outcome) ==
    LET n == retry.invocations + 1 IN
    /\ retry.pc = "try"
    /\ retry' = IF outcome = "return"
                THEN [retry EXCEPT !.invocations = n, !.pc = "done",
                                   !.result = [kind |-> "returned", by |-> n]]
                ELSE [retry EXCEPT !.invocations = n, !.pc = "except",
                                   !.retryable_raised =
                                       IF should_retry(outcome) THEN @ + 1 ELSE @,
                                   !.exc = [type |-> outcome, by |-> n]]
    /\ UNCHANGED nonRetryVars

\* wrapper: the except clause, up to the re-raise or to time.sleep(delay).
retry_except(jitter) ==
    LET attempt == retry.attempt + 1
        reraised == [kind |-> "raised", by |-> retry.exc.by]
        delay == get_retry_delay(attempt - 1, retry.strategy, retry.base_delay,
                                 retry.max_delay, jitter)
        args == <<retry.exc.type, attempt, delay>>
    IN  /\ retry.pc = "except"
        /\ jitter \in Jitters(attempt - 1, retry.strategy, retry.base_delay,
                              retry.max_delay)
        /\ retry' =
             IF attempt >= retry.max_attempts \/ ~should_retry(retry.exc.type)
             THEN [retry EXCEPT !.attempt = attempt, !.pc = "done", !.result = reraised]
             ELSE IF retry.on_retry = "raises"
             THEN [retry EXCEPT !.attempt = attempt, !.delay = delay,
                                !.callbacks = @ + 1, !.on_retry_args = args,
                                !.pc = "done",
                                !.result = [kind |-> "raised_by_on_retry", by |-> 0]]
             ELSE [retry EXCEPT !.attempt = attempt, !.delay = delay,
                                !.callbacks = IF retry.on_retry = "none" THEN @ ELSE @ + 1,
                                !.on_retry_args =
                                    IF retry.on_retry = "none" THEN @ ELSE args,
                                !.pc = "sleep"]
        /\ UNCHANGED nonRetryVars

\* wrapper: time.sleep(delay) returns and the loop starts over.
retry_sleep ==
    /\ retry.pc = "sleep"
    /\ retry' = [retry EXCEPT !.pc = "try", !.slept = @ + retry.delay]
    /\ UNCHANGED nonRetryVars

\* One caller of a function decorated with retry.
NextRetry ==
    \/ \E max_attempts \in 0..MaxAttempts,
          strategy \in {"fixed", "exponential", "exponential_jitter"},
          base_delay \in 1..BaseDelay, max_delay \in 1..MaxDelay,
          on_retry \in {"none", "returns", "raises"} :
          retry_call(max_attempts, strategy, base_delay, max_delay, on_retry)
    \/ \E outcome \in {"return"} \cup ErrorTypes : retry_invoke(outcome)
    \/ \E jitter \in 0..MaxDelay : retry_except(jitter)
    \/ retry_sleep

SpecRetry == Init /\ [][NextRetry]_vars

\* ----------------------------------------------------------- rate limiter
\* The time at which time.sleep(wait_time) would return at the earliest.
wake_time_without_buffer(current_time, wait_time) == current_time + wait_time

\* The time at which time.sleep(wait_time + 0.01) returns at the earliest; the
\* clock's unit is the buffer.
wake_time(current_time, wait_time) == current_time + wait_time + Buffer

\* The smallest element of a non-empty sequence of numbers: min(call_times).
SeqMin(s) == CHOOSE x \in Range(s) : \A y \in Range(s) : x <= y

\* A limiter that never forgets a call.
remove_old_never(times, current_time, period) == times

\* `[t for t in self.call_times if current_time - t <= self.period]`.
remove_old(times, current_time, period) ==
    SelectSeq(times, LAMBDA t : current_time - t <= period)

IdleCaller == [pc |-> "idle", wake |-> 0, last |-> NoneVal]

\* RateLimiter.__init__(calls, period, raise_on_limit).
RateLimiter(calls, period, raise_on_limit) ==
    /\ ~limiter.constructed
    /\ limiter' = [constructed |-> TRUE, calls |-> calls, period |-> period,
                   raise_on_limit |-> raise_on_limit]
    /\ UNCHANGED <<call_times, limiter_lock, caller, admitted>>
    /\ UNCHANGED <<now, nonLimiterVars>>

\* The wrapper of RateLimiter.__call__ (and wait_if_needed) from
\* `with self.lock` to the append, or to the exception, or to time.sleep.
limiter_enter(c) ==
    LET current_time == now
        kept == remove_old(call_times, current_time, limiter.period)
    IN  /\ limiter.constructed
        /\ caller[c].pc = "idle"
        /\ limiter_lock = 0
        /\ Len(admitted) < MaxAdmitted
        /\ IF Len(kept) < limiter.calls
            THEN /\ call_times' = Append(kept, current_time)
                 /\ admitted' = Append(admitted, current_time)
                 /\ caller' = [caller EXCEPT ![c] = [IdleCaller EXCEPT !.last = "admitted"]]
                 /\ UNCHANGED limiter_lock
            ELSE IF kept = <<>>
            THEN /\ call_times' = kept
                 /\ caller' = [caller EXCEPT ![c] = [IdleCaller EXCEPT !.last = "ValueError"]]
                 /\ UNCHANGED <<limiter_lock, admitted>>
            ELSE IF limiter.raise_on_limit
            THEN /\ call_times' = kept
                 /\ caller' = [caller EXCEPT ![c] = [IdleCaller EXCEPT !.last = "RateLimitError"]]
                 /\ UNCHANGED <<limiter_lock, admitted>>
            ELSE /\ call_times' = kept
                 /\ limiter_lock' = c
                 /\ caller' = [caller EXCEPT ![c] =
                        [pc |-> "sleeping", last |-> NoneVal,
                         wake |-> wake_time(current_time,
                                      limiter.period - (current_time - SeqMin(kept)))]]
                 /\ UNCHANGED admitted
        /\ UNCHANGED limiter
        /\ UNCHANGED <<now, nonLimiterVars>>

\* The wrapper after time.sleep: current_time = time.time(), the append, the
\* release of the lock.
limiter_wake(c) ==
    /\ caller[c].pc = "sleeping"
    /\ now >= caller[c].wake
    /\ call_times' = Append(call_times, now)
    /\ admitted' = Append(admitted, now)
    /\ limiter_lock' = 0
    /\ caller' = [caller EXCEPT ![c] = [IdleCaller EXCEPT !.last = "admitted"]]
    /\ UNCHANGED limiter
    /\ UNCHANGED <<now, nonLimiterVars>>

\* Concurrent callers of one RateLimiter while the clock advances.
NextLimiter ==
    \/ Tick
    \/ \E calls \in 0..MaxCalls, period \in 1..MaxPeriod, raise_on_limit \in BOOLEAN :
          RateLimiter(calls, period, raise_on_limit)
    \/ \E c \in Callers : limiter_enter(c)
    \/ \E c \in Callers : limiter_wake(c)

SpecLimiter == Init /\ [][NextLimiter]_vars

\* -------------------------------------------------------------- properties

\* The worker thread w has just been handed a job by dequeue.
Dequeued(w) == worker[w].pc = "idle" /\ worker'[w].pc = "processing"

\* C1: whenever dequeue returns a job, no job that is registered and PENDING
\* at that moment has a higher priority value than the returned one; so of
\* two registered pending jobs the one with the higher priority is returned
\* first.
C1_HigherPriorityFirst ==
    [][\A w \in Workers : Dequeued(w) =>
          \A i \in registry : job[i].status = "pending" =>
              job[i].priority <= job[worker'[w].id].priority]_vars

\* C1 witness: a job submitted later has overtaken a registered job of lower
\* priority that is still pending.
C1_Witness ==
    \E w \in Workers : \E i \in registry :
        /\ worker[w].pc = "processing"
        /\ job[i].status = "pending"
        /\ i < worker[w].id
        /\ job[i].priority < job[worker[w].id].priority

\* C2: a job that cancel_job has set to CANCELLED is never dequeued, never
\* set to RUNNING, never handed to the processor.
C2_CancelledNeverRuns ==
    [][\A i \in registry :
          job[i].status = "cancelled"
              => /\ job'[i].status # "running"
                 /\ \A w \in Workers : ~(Dequeued(w) /\ worker'[w].id = i)]_vars

\* C3: cancel_job on a job that is RUNNING, COMPLETED, FAILED or CANCELLED when
\* cancel_job reads it, or on an id that is not registered, returns false,
\* makes no update_job call and changes neither the job nor the queue.
C3_RefusedCancelChangesNothing ==
    [][\A id \in JobIds :
          (cancel_job_check(id) /\ (id \notin registry \/ job[id].status # "pending"))
              => /\ canceller'.pc = "idle"
                 /\ canceller'.ret = "False"
                 /\ update_calls' = update_calls
                 /\ UNCHANGED <<job, registry, queue, stats>>]_vars

\* C3 witness: cancel_job has returned false for a registered job that is
\* RUNNING, COMPLETED, FAILED or CANCELLED.
C3_Witness ==
    /\ canceller.pc = "idle"
    /\ canceller.ret = "False"
    /\ canceller.id \in registry
    /\ job[canceller.id].status \in {"running", "completed", "failed", "cancelled"}

\* C4: the value get_batch_status returns is the value a second call made
\* in the state it leaves would return, and the call changes no job, no
\* registry entry, no queue entry and no statistics.
C4_BatchStatusIdempotent ==
    [][\A b \in BatchIds : get_batch_status(b) =>
          /\ batch_results'[b] =
                 update_from_jobs(batch_results'[b],
                                  MembersFound(batch_results'[b], registry'), job')
          /\ UNCHANGED <<job, registry, queue, stats, update_calls>>]_vars

\* C4 witness: get_batch_status has reported a completed member.
C4_Witness ==
    \E b \in DOMAIN batch_results : batch_results[b].completed > 0

C6_BatchOutcome ==
    [][\A b \in BatchIds :
          (/\ get_batch_status(b)
           /\ canceller.pc = "idle" /\ canceller.ret = NoneVal
           /\ Range(batch_results[b].job_ids) \subseteq registry
           /\ \A i \in Range(batch_results[b].job_ids) :
                  job[i].status \in {"completed", "failed", "cancelled"})
          => LET br == batch_results'[b]
                 members == Range(br.job_ids)
                 F == raisedFor \cap members
             IN  /\ br.failed = Cardinality(F)
                 /\ br.completed = Len(br.job_ids) - Cardinality(F)
                 /\ br.pending = 0
                 /\ br.running = 0
                 /\ F \subseteq DOMAIN br.errors
                 /\ DOMAIN br.results =
                        {i \in members : job[i].status = "completed"}]_vars

\* C7: after a MemoryCache.set of k with a value v and an effective ttl (the
\* ttl argument, or the default for a falsy one), and while k is neither set
\* again nor deleted, a get(k) on the memory tier returns v as long as the
\* time elapsed since the set is at most the effective ttl, the instant of
\* expiry included, and reports a miss once it is greater.
C7_RoundTripUntilExpiry ==
    [][\A k \in Keys : (cache_get(k, FALSE) /\ k \in DOMAIN mem_set) =>
          LET elapsed == now - mem_set[k].at
          IN  /\ elapsed <= mem_set[k].effective => cache_ret' = mem_set[k].value
              /\ elapsed > mem_set[k].effective => cache_ret' = NoneVal]_vars

\* C7 witness: a get issued exactly ttl seconds after set(k, v, ttl) has
\* returned v.
C7_Witness ==
    \E k \in DOMAIN mem_set :
        /\ cache_call = [op |-> "get", key |-> k, use_disk |-> FALSE,
                         at |-> mem_set[k].at + mem_set[k].ttl]
        /\ mem_set[k].by = "set"
        /\ mem_set[k].ttl >= 1
        /\ mem_set[k].value # NoneVal
        /\ cache_ret = mem_set[k].value

\* C7 as stated: set(k, v, ttl) with a ttl of at least one second followed
\* immediately by get(k) returns v, and a get(k) issued when the time elapsed
\* since the set is greater than or equal to ttl reports a miss.
C7_MissFromTtlOn ==
    [][\A k \in Keys :
          (/\ cache_get(k, FALSE)
           /\ k \in DOMAIN mem_set
           /\ mem_set[k].by = "set"
           /\ mem_set[k].ttl >= 1)
          => /\ (cache_call.op = "set" /\ cache_call.key = k /\ cache_call.at = now)
                    => cache_ret' = mem_set[k].value
             /\ now - mem_set[k].at >= mem_set[k].ttl => cache_ret' = NoneVal]_vars

C9_InvokedMaxAttemptsTimes ==
    (/\ retry.pc = "done"
     /\ retry.max_attempts >= 1
     /\ retry.retryable_raised = retry.invocations)
    => /\ retry.invocations = retry.max_attempts
       /\ retry.result = [kind |-> "raised", by |-> retry.invocations]

\* The admitted calls recorded in the closed window of length period that
\* starts at the time of the i-th admitted call.
InWindow(i) ==
    {j \in 1..Len(admitted) :
        admitted[i] <= admitted[j] /\ admitted[j] <= admitted[i] + limiter.period}

\* C10: for a RateLimiter(calls, period) in blocking mode, no window of
\* length period holds more than calls admitted calls, whatever the order in
\* which concurrent callers get the lock; with calls = 1 the third admitted
\* call comes at least two periods after the first.
C10_WindowNeverOverfull ==
    (limiter.constructed /\ ~limiter.raise_on_limit)
    => /\ \A i \in 1..Len(admitted) : Cardinality(InWindow(i)) <= limiter.calls
       /\ (limiter.calls = 1 /\ Len(admitted) >= 3)
              => admitted[3] - admitted[1] >= 2 * limiter.period

\* C10 witness: a blocking limiter of one call per period has admitted three
\* calls, the second and the third after sleeping out the period and the
\* buffer.
C10_Witness ==
    /\ limiter.constructed /\ ~limiter.raise_on_limit
    /\ limiter.calls = 1
    /\ Len(admitted) = 3
    /\ admitted[2] - admitted[1] = limiter.period + Buffer
    /\ admitted[3] - admitted[2] = limiter.period + Buffer

\* C11: process_job turns a job that is still RUNNING when the processor
\* returns into COMPLETED, leaves a job the processor has already moved on
\* as it is, turns a job whose processor raised into FAILED with the
\* exception's message as error, and in each case makes exactly one
\* update_job call, which finds the job registered.
C11_ProcessJobOutcome ==
    [][\A w \in Workers : process_job(w) =>
          LET id == worker[w].id
              exc == worker[w].exc
          IN  /\ update_calls' = update_calls + 1
              /\ update_ret' = "True"
              /\ (exc = NoneVal /\ job[id].status = "running")
                     => job'[id].status = "completed"
              /\ (exc = NoneVal /\ job[id].status # "running")
                     => job'[id].status = job[id].status
              /\ exc # NoneVal
                     => job'[id].status = "failed" /\ job'[id].error = exc]_vars

\* C11 witness: with no cancel_job call made, two update_job calls have
\* published one job as COMPLETED and one as FAILED with its message.
C11_Witness ==
    /\ canceller.ret = NoneVal
    /\ update_calls = 2
    /\ \E i, k \in registry :
           /\ job[i].status = "completed"
           /\ job[k].status = "failed"
           /\ job[k].error = "boom"

\* C12: when the processor has raised for a job, process_job ends with the
\* worker loop back at its next dequeue and with every other registered job
\* as it was; and from then on every registered pending job is eventually
\* processed to COMPLETED or FAILED, unless it is removed first.
C12_FailureIsolation ==
    /\ [][\A w \in Workers : (process_job(w) /\ worker[w].exc # NoneVal) =>
              /\ worker'[w] = IdleWorker
              /\ \A i \in registry \ {worker[w].id} :
                     i \in registry' /\ job'[i] = job[i]]_vars
    /\ \A i \in JobIds :
           (raisedFor # {} /\ i \in registry /\ job[i].status = "pending")
               ~> (i \in registry => job[i].status \in {"completed", "failed"})

\* C12 witness: the job of critical priority submitted first, hence
\* processed first, has failed, and the one thread has since completed the
\* job submitted after it.
C12_Witness ==
    /\ {1, 2} \subseteq registry
    /\ job[1].priority = CRITICAL
    /\ job[1].status = "failed"
    /\ job[2].status = "completed"
    /\ 1 \in raisedFor

\* C13: every registered job whose status is FAILED has an error message
\* that is not empty, and get_batch_status puts that message under the job's
\* id in the errors map of each batch the job is a member of.
C13_FailedHasMessage ==
    [][/\ \A i \in registry' :
              job'[i].status = "failed" => job'[i].error \notin {NoneVal, ""}
       /\ \A b \in BatchIds : get_batch_status(b) =>
              \A i \in Range(batch_results[b].job_ids) \cap registry :
                  job[i].status = "failed"
                      => /\ i \in DOMAIN batch_results'[b].errors
                         /\ batch_results'[b].errors[i] = job[i].error]_vars

\* The payload carries exactly one of 'article_id' and 'text'.
CarriesExactlyOne(p) == (p.article_id # "absent") # (p.text # "absent")

\* C14: create_job with a payload that does not carry exactly one of
\* 'article_id' and 'text' fails at construction, so that no job comes into
\* being and nothing is added to the registry or the heap; and no job a
\* worker has processed fails for lack of both an identifier and a text.
C14_ValidatedAtConstruction ==
    [][/\ \A p \in Payloads :
              (create_job(NextJobId, p, NORMAL) /\ ~CarriesExactlyOne(p))
                  => UNCHANGED <<job, held, registry, queue>>
       /\ \A w \in Workers : process_job(w) => worker[w].exc # NeitherField]_vars

\* C15: an update_job call for an id that is not in the registry (the worker
\* finishing a job removed meanwhile, cancel_job writing to one) returns
\* False without raising and leaves registry and stats as they were, the job
\* staying out of the registry; for a registered id it returns True, the
\* registry entry is the job as the caller passed it, and the stats are
\* those of the registry.
C15_UpdateJobOfAbsentId ==
    [][/\ \A w \in Workers : process_job(w) =>
              LET id == worker[w].id IN
              IF id \notin registry
              THEN /\ update_ret' = "False"
                   /\ worker'[w] = IdleWorker
                   /\ id \notin registry'
                   /\ UNCHANGED <<registry, stats>>
              ELSE /\ update_ret' = "True"
                   /\ registry' = registry
                   /\ job'[id] = process_job_outcome(job[id], worker[w].exc, now)
                   /\ stats' = update_stats(registry', job')
       /\ cancel_job_write =>
              LET id == canceller.id IN
              IF id \notin registry
              THEN /\ update_ret' = "False"
                   /\ id \notin registry'
                   /\ UNCHANGED <<registry, stats>>
              ELSE /\ update_ret' = "True"
                   /\ registry' = registry
                   /\ job'[id] = update_status(job[id], "cancelled", now)
                   /\ stats' = update_stats(registry', job')]_vars

\* C15 witness: the worker has finished a job that remove_job had taken out
\* of the registry while it ran; update_job has returned False and the
\* thread is back at its next dequeue.
C15_Witness ==
    /\ update_ret = "False"
    /\ canceller.ret = NoneVal
    /\ registry # {}
    /\ \A w \in Workers : worker[w] = IdleWorker

\* C16: a dequeue never returns a job that is not in the registry, and
\* whenever the heap holds the entry of a registered pending job a dequeue
\* returns a job: the entries of removed jobs are passed over, none makes
\* the call end without a job.
C16_StaleEntrySkipped ==
    [][\A w \in Workers : dequeue(w) =>
          /\ Dequeued(w) => worker'[w].id \in registry
          /\ (\E e \in queue : e[3] \in registry /\ job[e[3]].status = "pending")
                 => Dequeued(w)]_vars

\* C17: whenever dequeue returns a job, every other registered pending job
\* of the same priority was created later, or at the same time with a
\* greater id.
C17_CreationTimeThenId ==
    [][\A w \in Workers : Dequeued(w) =>
          LET r == worker'[w].id IN
          \A i \in registry \ {r} :
              (job[i].status = "pending" /\ job[i].priority = job[r].priority)
                  => \/ job[r].created_at < job[i].created_at
                     \/ job[r].created_at = job[i].created_at /\ r < i]_vars

\* C17 witness: dequeue has returned a job while a job of the same priority
\* with a smaller id but a later creation time, and one created at the same
\* time with a greater id, are pending.
C17_Witness ==
    \E w \in Workers : \E i, k \in registry :
        LET r == worker[w].id IN
        /\ worker[w].pc = "processing"
        /\ job[i].status = "pending" /\ job[k].status = "pending"
        /\ job[i].priority = job[r].priority /\ job[k].priority = job[r].priority
        /\ job[k].created_at > job[r].created_at /\ k < r
        /\ job[i].created_at = job[r].created_at /\ r < i

\* The place of job i in the order of the enqueue calls.
EnqueuePosition(i) == CHOOSE n \in 1..Len(enq_order) : enq_order[n] = i

\* C18: whenever dequeue returns a job, every other registered pending job
\* of the same priority was enqueued after it.
C18_InsertionStable ==
    [][\A w \in Workers : Dequeued(w) =>
          LET r == worker'[w].id IN
          \A i \in registry \ {r} :
              (job[i].status = "pending" /\ job[i].priority = job[r].priority)
                  => EnqueuePosition(r) < EnqueuePosition(i)]_vars

\* A step in which enqueue, dequeue, update_job or remove_job returns; a
\* dequeue that raises KeyError on the entry of a removed job returns nothing
\* and is left out.
QueueOperationReturns ==
    \/ \E b \in BatchIds, n \in 1..MaxBatchSize, prio \in SubmitPriorities :
          SubmitBatch(b, BatchPayloads(n), prio)
    \/ \E w \in Workers :
          dequeue(w) /\ (queue # {} => QueueGet(queue)[3] \in registry)
    \/ \E w \in Workers : process_job(w)
    \/ cancel_job_write
    \/ \E id \in JobIds : remove_job(id)

\* C19: right after enqueue, dequeue, update_job or remove_job has returned,
\* each of the five counters of the stats is the number of registry jobs in
\* that status, and total_jobs is the size of the registry and the sum of the
\* five counters.
C19_StatsMatchRegistry ==
    [][QueueOperationReturns =>
          /\ stats' = update_stats(registry', job')
          /\ stats'.total_jobs = Cardinality(registry')
          /\ stats'.total_jobs =
                 stats'.pending_jobs + stats'.running_jobs + stats'.completed_jobs
                     + stats'.failed_jobs + stats'.cancelled_jobs]_vars

\* The status changes the claim allows.
LegalTransitions ==
    {<<"pending", "running">>, <<"running", "completed">>, <<"running", "failed">>,
     <<"pending", "cancelled">>, <<"failed", "pending">>}

\* C20: every change of status of a registered job is one of the legal
\* transitions, so that COMPLETED and CANCELLED are never left, and the job
\* a dequeue returns was PENDING.
C20_LegalTransitionsOnly ==
    [][/\ \A i \in registry \cap registry' :
              job'[i].status # job[i].status
                  => <<job[i].status, job'[i].status>> \in LegalTransitions
       /\ \A w \in Workers :
              Dequeued(w) => job[worker'[w].id].status = "pending"]_vars

\* C21: no job has both a result and an error; a job has a result only
\* while it is COMPLETED and an error only while it is FAILED, however the
\* call of the processor ends.
C21_ResultErrorExclusive ==
    \A i \in DOMAIN job :
        /\ ~(job[i].result # NoneVal /\ job[i].error # NoneVal)
        /\ job[i].result # NoneVal => job[i].status = "completed"
        /\ job[i].error # NoneVal => job[i].status = "failed"

\* The statuses a job ends in.
TerminalStatus == {"completed", "failed", "cancelled"}

\* C22: a job is made with started_at and completed_at unset; started_at
\* becomes set only in a step that takes the job to RUNNING and completed_at
\* only in a step that takes it to a terminal status, each to the time of
\* that step; the first such step sets it, and once set it never changes,
\* also when the job is retried and run again.
C22_TimestampsSetOnce ==
    [][/\ \A i \in DOMAIN job' \ DOMAIN job :
              job'[i].started_at = NoTime /\ job'[i].completed_at = NoTime
       /\ \A i \in DOMAIN job \cap DOMAIN job' :
              LET a == job[i]
                  b == job'[i]
              IN  /\ a.started_at # NoTime => b.started_at = a.started_at
                  /\ a.completed_at # NoTime => b.completed_at = a.completed_at
                  /\ b.started_at # a.started_at
                         => a.status # "running" /\ b.status = "running"
                  /\ b.completed_at # a.completed_at
                         => a.status \notin TerminalStatus /\ b.status \in TerminalStatus
                  /\ (a.status # "running" /\ b.status = "running"
                          /\ a.started_at = NoTime) => b.started_at = now
                  /\ (a.status \notin TerminalStatus /\ b.status \in TerminalStatus
                          /\ a.completed_at = NoTime) => b.completed_at = now]_vars

\* C22 witness: a job that failed and was retried has been run again to
\* COMPLETED at a later time, and its timestamps are still those of its
\* first run.
C22_Witness ==
    \E i \in registry :
        /\ job[i].retries = 1
        /\ job[i].status = "completed"
        /\ job[i].started_at = 0
        /\ job[i].completed_at = 1
        /\ now = 2

\* C23: a batch submission with n payloads adds exactly n jobs to the
\* registry and n entries to the heap, each job new, PENDING and of the
\* priority given; it registers one batch record under an id that was not
\* registered, whose job_ids are the ids of the n jobs in the order of their
\* payloads and whose pending count is n; and it changes no batch record and
\* no job that was there before.
C23_BatchSubmission ==
    [][\A b \in SubmitBatchIds, n \in 0..MaxBatchSize, prio \in SubmitPriorities :
          SubmitBatch(b, BatchPayloads(n), prio) =>
              LET new == registry' \ registry
                  br == batch_results'[b]
              IN  /\ b \notin DOMAIN batch_results
                  /\ DOMAIN batch_results' = DOMAIN batch_results \cup {b}
                  /\ Cardinality(new) = n
                  /\ Cardinality(queue' \ queue) = n
                  /\ queue \subseteq queue'
                  /\ \A i \in new :
                         /\ i \notin DOMAIN job
                         /\ job'[i].status = "pending"
                         /\ job'[i].priority = prio
                         /\ priority_tuple(job'[i], i) \in queue'
                  /\ Len(br.job_ids) = n
                  /\ \A k \in 1..n : br.job_ids[k] = created + k
                  /\ Range(br.job_ids) = new
                  /\ br.pending = n
                  /\ br.completed = 0 /\ br.failed = 0 /\ br.running = 0
                  /\ br.cancelled = 0
                  /\ \A c \in DOMAIN batch_results : batch_results'[c] = batch_results[c]
                  /\ \A i \in registry : i \in registry' /\ job'[i] = job[i]]_vars

\* C23 witness: a batch of two jobs has been registered, both jobs pending
\* and listed in payload order, next to an earlier batch whose record
\* reports its one job as failed.
C23_Witness ==
    \E b, c \in DOMAIN batch_results :
        /\ batch_results[c].job_ids = <<1>>
        /\ batch_results[c].failed = 1
        /\ batch_results[b].job_ids = <<2, 3>>
        /\ batch_results[b].pending = 2
        /\ job[2].status = "pending" /\ job[3].status = "pending"

\* The member of its batch that cancel_batch is at.
CurrentMember == batch_results[batch_cancel.b].job_ids[batch_cancel.k]

NotRetryable(e) ==
    /\ e \notin retryable_exceptions
    /\ e \notin {"ConnectionError", "APIError429"}
    /\ e # "RetryableError"

\* C25: when the operation has raised an error that is not retryable, on
\* whichever attempt, the wrapper re-raises that error in its next step
\* without sleeping, without calling on_retry and without invoking the
\* operation again.
C25_NonRetryablePropagates ==
    [][(retry.pc = "except" /\ NotRetryable(retry.exc.type))
          => /\ retry'.pc = "done"
             /\ retry'.result = [kind |-> "raised", by |-> retry.invocations]
             /\ retry.exc.by = retry.invocations
             /\ retry'.invocations = retry.invocations
             /\ retry'.callbacks = retry.callbacks
             /\ retry'.slept = retry.slept]_vars

\* C25 witness: the second invocation, made after a retryable error, a
\* callback and a sleep, raised a ValueError, which the caller has seen
\* although a further attempt was allowed.
C25_Witness ==
    /\ retry.pc = "done"
    /\ retry.max_attempts = 3
    /\ retry.exc = [type |-> "ValueError", by |-> 2]
    /\ retry.result = [kind |-> "raised", by |-> 2]
    /\ retry.invocations = 2
    /\ retry.callbacks = 1
    /\ retry.slept >= 1

\* The recorded calls that lie within the last period at the time t.
RecordedInWindow(t) ==
    Cardinality({j \in 1..Len(call_times) : t - call_times[j] <= limiter.period})

C27_RegistryChangesInQueueOperation ==
    \A w \in Workers :
        (worker[w].pc \in {"processing", "finishing"} /\ worker[w].id \in registry)
            => /\ job[worker[w].id].status = "running"
               /\ job[worker[w].id].result = NoneVal
               /\ job[worker[w].id].error = NoneVal
               /\ stats.running_jobs >= 1


\* The EXPONENTIAL value of the delay before retry number attempt_ + 1.
exponential_delay(attempt_) == Min(retry.base_delay * Pow2(attempt_), retry.max_delay)

\* C28: each time the wrapper computes a delay, the first retry counting as
\* attempt 0: under FIXED the delay is base_delay, under EXPONENTIAL it is
\* min(base_delay * 2^attempt, max_delay), and under both it is at most
\* max_delay and at least the delay before the previous retry of the same
\* call; under EXPONENTIAL_JITTER it lies between the EXPONENTIAL value d and
\* 1.5 * d.
C28_RetryDelays ==
    [][(retry.pc = "except" /\ retry'.pc = "sleep") =>
          LET d == exponential_delay(retry.attempt) IN
          /\ retry.strategy = "fixed" => retry'.delay = retry.base_delay
          /\ retry.strategy = "exponential" => retry'.delay = d
          /\ retry.strategy \in {"fixed", "exponential"} =>
                 /\ retry'.delay <= retry.max_delay
                 /\ retry.attempt >= 1 => retry'.delay >= retry.delay
          /\ retry.strategy = "exponential_jitter" =>
                 /\ d <= retry'.delay
                 /\ 2 * retry'.delay <= 3 * d]_vars


\* C29: with an on_retry callback, the except clause of a retried error calls
\* it once with (error, attempt number, delay) and goes on to sleep; the
\* clause of an error that is not retried does not call it and re-raises the
\* error, after max_attempts - 1 calls in all when every invocation raised a
\* retryable error; this whatever the callback does, raising included.
C29_OnRetryObservesOnly ==
    [][(retry.pc = "except" /\ retry.on_retry # "none") =>
          LET retried == /\ should_retry(retry.exc.type)
                         /\ retry.attempt + 1 < retry.max_attempts
          IN  /\ retried =>
                    /\ retry'.pc = "sleep"
                    /\ retry'.callbacks = retry.callbacks + 1
                    /\ retry'.on_retry_args =
                           <<retry.exc.type, retry.attempt + 1, retry'.delay>>
              /\ ~retried =>
                    /\ retry'.pc = "done"
                    /\ retry'.result = [kind |-> "raised", by |-> retry.exc.by]
                    /\ retry'.callbacks = retry.callbacks
                    /\ (retry.retryable_raised = retry.invocations
                            /\ retry.max_attempts >= 1) =>
                           retry'.callbacks = retry.max_attempts - 1]_vars


\* C30: no thread holds the memory cache's lock and the disk cache's lock at
\* once, whatever CacheManager method it is in; a get that promotes reads the
\* value under the disk lock alone, has released that lock before it goes to
\* the memory cache, and inserts under the memory lock alone.
C30_NeverBothTierLocks ==
    \A t \in CacheThreads :
        /\ ~(tier_lock["memory"] = t /\ tier_lock["disk"] = t)
        /\ cache_thread[t].pc = "disk" => tier_lock["memory"] # t
        /\ (cache_thread[t].pc = "memory" /\ cache_thread[t].doing = "promote") =>
               tier_lock["disk"] # t

\* A thread is about to insert into the memory cache, under its lock, the
\* value it read from disk, while another thread holds the disk lock.
C30_Witness ==
    \E t, u \in CacheThreads :
        /\ cache_thread[t].pc = "memory"
        /\ cache_thread[t].doing = "promote"
        /\ cache_thread[t].value \in ThreadValues
        /\ tier_lock["memory"] = t
        /\ tier_lock["disk"] = u
        /\ u # t


\* The entries of a tier that are not expired at time t.
Unexpired(tier, expired(_, _), t) ==
    [k \in {i \in DOMAIN tier : ~expired(tier[i], t)} |-> tier[k]]

C32_ShortCircuitOnHit ==
    [][(/\ wrapper_get
        /\ memo.stored
        /\ now <= memo.stored_at + EffectiveTtl(memo.ttl, MemoryTtl))
       => /\ memo'.pc = "idle"
          /\ memo'.ret = memo.stored_value
          /\ memo'.invocations = memo.invocations]_vars


\* C33: from the return of MemoryWorker.stop() until the next start(), no job
\* goes from PENDING to RUNNING: the jobs that are pending stay pending.
C33_NoDispatchAfterStop ==
    [][pool.stop_returned =>
          \A id \in registry :
              job[id].status = "pending" =>
                  (id \in DOMAIN job' /\ job'[id].status = "pending")]_vars


\* C34: a job that was being processed when stop() was called is left to its
\* processor: until process_job has dealt with it, it is RUNNING (or what the
\* processor made of it) and its thread goes on; when the processor call has
\* returned or raised, process_job makes it COMPLETED or FAILED with the
\* error and calls update_job, which finds the job and recounts the stats,
\* also after stop() has returned.
C34_InFlightJobFinishes ==
    [][\A w \in Workers :
          (worker[w].pc = "finishing" /\ worker[w].id \in pool.in_flight) =>
              /\ ENABLED process_job(w)
              /\ process_job(w) =>
                    LET id == worker[w].id IN
                    /\ id \in registry'
                    /\ job'[id].status =
                           IF worker[w].exc = NoneVal THEN "completed" ELSE "failed"
                    /\ job'[id].error = worker[w].exc
                    /\ update_calls' = update_calls + 1
                    /\ update_ret' = "True"
                    /\ stats' = update_stats(registry', job')]_vars

\* C34 witness: stop() has returned with a job still in its processor, and
\* that job is COMPLETED in the registry and counted.
C34_Witness ==
    /\ pool.stop_returned
    /\ ~pool.running
    /\ \E id \in pool.in_flight \cap registry :
          /\ job[id].status = "completed"
          /\ stats.completed_jobs >= 1
          /\ update_ret = "True"
          /\ \A w \in Workers : worker[w].id # id


\* C35: whenever dequeue hands a job to a worker thread, that job has not
\* been handed out before: no other thread holds it, its processor has not
\* been invoked, and no entry for it is left in the heap; and the processor
\* is invoked for a job at most once.
C35_DequeuedAtMostOnce ==
    [][\A w \in Workers :
          /\ Dequeued(w) =>
                LET id == worker'[w].id IN
                /\ id \notin invoked
                /\ \A v \in Workers : worker[v].id # id
                /\ \A e \in queue' : e[3] # id
          /\ (worker[w].pc = "processing" /\ worker'[w].pc = "finishing") =>
                /\ worker[w].id \notin invoked
                /\ \A v \in Workers \ {w} : worker[v].id # worker[w].id]_vars

\* C35 witness: two worker threads are each inside the processor with a job
\* of their own, and nothing is left in the heap.
C35_Witness ==
    /\ queue = {}
    /\ \E w, v \in Workers :
          /\ worker[w].pc = "finishing"
          /\ worker[v].pc = "processing"
          /\ worker[w].id # worker[v].id
          /\ worker[w].id \in invoked
          /\ worker[v].id \notin invoked


\* C36: at every moment at most num_threads worker loops of the MemoryWorker
\* are alive and at most num_threads jobs are inside process_job.
C36_AtMostNumThreads ==
    /\ Cardinality(pool.alive) <= PoolThreads
    /\ Cardinality({w \in Workers : worker[w].pc \in {"processing", "finishing"}})
           <= PoolThreads


\* C37: with the worker never stopped, every registered job that is pending
\* eventually is COMPLETED or FAILED in the registry, unless it is cancelled
\* or removed, whatever happens to the other jobs in the meantime.
C37_EveryJobProcessed ==
    \A i \in 1..MaxLiveJobs :
        (i \in registry /\ job[i].status = "pending")
            ~> \/ i \notin registry
               \/ job[i].status \in {"completed", "failed", "cancelled"}

\* C37 witness: the first job was removed while its entry was in the heap,
\* the loop has met that entry, and the second job is COMPLETED.
C37_Witness ==
    /\ created = 2
    /\ registry = {2}
    /\ 1 \notin invoked
    /\ queue = {}
    /\ job[2].status = "completed"
    /\ \A w \in Workers : worker[w] = IdleWorker


\* C38: cancel_job and dequeue exclude each other: once cancel_job has
\* returned True for a job, the job is CANCELLED, no worker holds it and its
\* processor is never invoked; and the write of cancel_job never replaces
\* RUNNING by CANCELLED.
C38_CancelExcludesDispatch ==
    [][/\ (canceller'.pc = "idle" /\ canceller'.ret = "True")
              => /\ canceller'.id \notin invoked'
                 /\ \A w \in Workers : worker'[w].id # canceller'.id
                 /\ canceller'.id \in registry'
                        => job'[canceller'.id].status = "cancelled"
       /\ (canceller.pc = "write" /\ canceller'.pc = "idle")
              => job[canceller.id].status # "running"]_vars


\* ------------------------------------------- locks of the manager and queue
\* The two locks: LiteratureExtractionQueueManager.batch_lock and
\* MemoryQueue.lock, both threading.RLock.
LockNames == {"batch_lock", "lock"}
LockThreads == 1..NumLockThreads

Acquire(l) == [do |-> "acquire", lock |-> l]
Release(l) == [do |-> "release", lock |-> l]
\* self.job_processor(job) in MemoryWorker.process_job.
ProcessorCall == [do |-> "job_processor", lock |-> NoneVal]

\* `with l:` around a body.
with_lock(l, body) == <<Acquire(l)>> \o body \o <<Release(l)>>

\* enqueue, dequeue, get_job and update_job of MemoryQueue: one
\* `with self.lock:` each, whose body takes no other lock.
queue_method == with_lock("lock", <<>>)

RECURSIVE Repeat(_, _)
Repeat(n, body) == IF n = 0 THEN <<>> ELSE body \o Repeat(n - 1, body)

\* cancel_job: get_job, and for a job read as PENDING update_job.
cancel_job_locks(pending) == queue_method \o (IF pending THEN queue_method ELSE <<>>)

RECURSIVE cancel_jobs_locks(_)
cancel_jobs_locks(pendings) ==
    IF pendings = <<>> THEN <<>>
    ELSE cancel_job_locks(Head(pendings)) \o cancel_jobs_locks(Tail(pendings))

\* get_batch_status: under batch_lock, one get_job per job id of the batch.
get_batch_status_locks(found, n) ==
    with_lock("batch_lock", IF found THEN Repeat(n, queue_method) ELSE <<>>)

\* cancel_batch: under batch_lock, one cancel_job per job id of the batch.
cancel_batch_locks(found, pendings) ==
    with_lock("batch_lock", IF found THEN cancel_jobs_locks(pendings) ELSE <<>>)

\* submit_batch_article_ids, submit_batch_texts: the enqueues, then the
\* batch result is stored under batch_lock.
submit_batch_locks(n) == Repeat(n, queue_method) \o with_lock("batch_lock", <<>>)

\* MemoryWorker.process_job: the processor, then update_job.
process_job_locks == <<ProcessorCall>> \o queue_method

\* A turn of the loop that keeps the queue's lock from dequeue to the end of
\* process_job.
worker_loop_locks_kept(got) ==
    with_lock("lock", IF got THEN process_job_locks ELSE <<>>)

\* One turn of _worker_loop: dequeue, and process_job for the job it got.
worker_loop_locks(got) == queue_method \o (IF got THEN process_job_locks ELSE <<>>)

Holder(l) == {t \in LockThreads : \E i \in DOMAIN lock_thread[t].holds :
                                      lock_thread[t].holds[i] = l}
Busy(t) == lock_thread[t].ahead # <<>>
Wants(t, l) == Busy(t) /\ Head(lock_thread[t].ahead) = Acquire(l)
\* An RLock is free for its owner.
Blocked(t) == \E l \in LockNames : Wants(t, l) /\ Holder(l) \ {t} # {}

\* A thread calls a method: the lock operations of the call lie ahead of it.
thread_call(t, ops) ==
    /\ ~Busy(t)
    /\ lock_thread' = [lock_thread EXCEPT ![t].ahead = ops]
    /\ UNCHANGED nonLockVars

\* The next lock operation of a thread; acquire waits while another thread
\* owns the lock.
thread_step(t) ==
    /\ Busy(t)
    /\ ~Blocked(t)
    /\ LET op == Head(lock_thread[t].ahead)
           hs == lock_thread[t].holds
       IN  lock_thread' = [lock_thread EXCEPT
               ![t].ahead = Tail(@),
               ![t].holds = CASE op.do = "acquire" -> Append(hs, op.lock)
                              [] op.do = "release" -> SubSeq(hs, 1, Len(hs) - 1)
                              [] OTHER -> hs]
    /\ UNCHANGED nonLockVars

NextLocks ==
    \/ \E t \in LockThreads, got \in BOOLEAN : thread_call(t, worker_loop_locks(got))
    \/ \E t \in LockThreads, found \in BOOLEAN, n \in 1..MaxBatchSize :
          thread_call(t, get_batch_status_locks(found, n))
    \/ \E t \in LockThreads, found \in BOOLEAN, n \in 1..MaxBatchSize :
          \E pendings \in [1..n -> BOOLEAN] :
              thread_call(t, cancel_batch_locks(found, pendings))
    \/ \E t \in LockThreads, n \in 1..MaxBatchSize : thread_call(t, submit_batch_locks(n))
    \/ \E t \in LockThreads, pending \in BOOLEAN : thread_call(t, cancel_job_locks(pending))
    \/ \E t \in LockThreads : thread_step(t)

SpecLocks == Init /\ [][NextLocks]_vars

\* C39: locks nest only as batch_lock then the queue's lock, never the
\* other way round; no thread holds a lock when it calls the processor; and
\* whenever threads are inside calls, one of them is not waiting for a lock
\* another thread owns.
C39_NoDeadlock ==
    /\ \A t \in LockThreads :
          LET hs == lock_thread[t].holds IN
          /\ hs \in {<<>>, <<"batch_lock">>, <<"lock">>, <<"batch_lock", "lock">>}
          /\ (Busy(t) /\ Head(lock_thread[t].ahead) = ProcessorCall) => hs = <<>>
    /\ (\E t \in LockThreads : Busy(t)) => \E t \in LockThreads : Busy(t) /\ ~Blocked(t)

\* C39 witness: one thread holds batch_lock and, inside it, the queue's
\* lock, while a second waits for batch_lock and a third for the queue's
\* lock with a processor call ahead of it.
C39_Witness ==
    \E t, u, v \in LockThreads :
        /\ lock_thread[t].holds = <<"batch_lock", "lock">>
        /\ Wants(u, "batch_lock") /\ Blocked(u)
        /\ Wants(v, "lock") /\ Blocked(v)
        /\ \E i \in DOMAIN lock_thread[v].ahead : lock_thread[v].ahead[i] = ProcessorCall


\* C40: when the last set of k was set(k, v, memory_ttl, disk_ttl,
\* use_disk=true), k was not deleted since, and more time than memory_ttl and
\* more than disk_ttl has passed since that set, every get(k, use_disk)
\* reports a miss, promoted or not.
C40_MissPastEveryExpiry ==
    [][\A k \in Keys, use_disk \in BOOLEAN :
          (/\ cache_get(k, use_disk)
           /\ k \in DOMAIN mem_set
           /\ mem_set[k].origin.use_disk
           /\ now > mem_set[k].origin.memory_expiry
           /\ now > mem_set[k].origin.disk_expiry)
          => cache_ret' = NoneVal]_vars

====
